---- MODULE Spec2Model ----
(***************************************************************************)
(* Model of muPlot: clipping (src/src/clipping.c and the clipping macros   *)
(* of src/src/muPlot.h), boxes and simple mappings (src/src/mappings.c),   *)
(* affine transforms (src/src/muXForms.c and the macros of                 *)
(* src/src/muPlotXForms.h), and the registry of graphic drivers with the   *)
(* opening of devices (src/src/muPlot.c, src/src/muXFigDriver.c and the    *)
(* dummy driver of src/src/muTests.c).                                     *)
(*                                                                         *)
(* Numbers.  The C code is instantiated for float and double.  A value of  *)
(* type T is modelled as a pair <<n, d>>: a rational n/d in lowest terms   *)
(* with d > 0, or one of the three IEEE-754 specials +Inf = <<1, 0>>,       *)
(* -Inf = <<-1, 0>> and NaN = <<0, 0>>.  Arithmetic is exact on rationals  *)
(* (no rounding) and follows IEEE-754 on the specials, including division  *)
(* by zero; the sign of zero is not modelled (the divisors of the code are *)
(* differences a - b, which are +0 when a = b, or are tested non-zero).    *)
(*                                                                         *)
(* State.  box, xs, ys are the arguments of the clipping calls, obj is the *)
(* memory of the objects passed by address to the other functions (a       *)
(* function from object names to records), pc is the last function called  *)
(* and res what it returned.  For the drivers, obj holds the list          *)
(* firstDriver, the caller's variables argc, argv and devptr, and the heap *)
(* of device blocks; a pointer is a sequence of at most one element, the   *)
(* empty sequence being NULL.                                              *)
(***************************************************************************)
EXTENDS Integers, Sequences, FiniteSets, TLC

VARIABLES box, xs, ys, pc, res, obj

vars == <<box, xs, ys, pc, res, obj>>

(***************************************************************************)
(* Bounds of the model.                                                    *)
(***************************************************************************)
\* Coordinates of the points of a single segment range over 0..MaxCoord.
MaxCoord == 4

\* A batch of disjoint segments holds at most MaxSegs segments.
MaxSegs == 4

\* A polyline holds at most MaxPoints points.
MaxPoints == 3

(***************************************************************************)
(* Status codes (_MP_STATUS_LIST).                                         *)
(***************************************************************************)
MP_OK == 0
MP_NO_MEMORY == 13
MP_OUT_OF_RANGE == 14

(***************************************************************************)
(* Arithmetic of the floating-point type T.                                *)
(***************************************************************************)
Abs(n) == IF n < 0 THEN -n ELSE n

Sign(n) == IF n < 0 THEN -1 ELSE IF n > 0 THEN 1 ELSE 0

RECURSIVE GCD(_, _)
GCD(a, b) == IF b = 0 THEN a ELSE GCD(b, a % b)

\* The value n/d (d # 0) in lowest terms with a positive denominator.
Rat(n, d) ==
    LET g == GCD(Abs(n), Abs(d))
        s == IF d < 0 THEN -1 ELSE 1
    IN  <<(s * n) \div g, (s * d) \div g>>

Num(k) == <<k, 1>>

PInf == <<1, 0>>
NInf == <<-1, 0>>
NaN == <<0, 0>>

\* Content of a T object the code has not written.
Unset == <<0, -1>>

IsNaN(a) == a = NaN

IsInf(a) == a[2] = 0 /\ a[1] # 0

IsFin(a) == a[2] > 0

IsZero(a) == IsFin(a) /\ a[1] = 0

\* The sign of a non-NaN value: -1, 0 or 1.
SignOf(a) == Sign(a[1])

InfOf(s) == IF s > 0 THEN PInf ELSE NInf

Neg(a) == <<-a[1], a[2]>>

Add(a, b) ==
    IF IsNaN(a) \/ IsNaN(b) THEN NaN
    ELSE IF IsInf(a) /\ IsInf(b) THEN (IF a = b THEN a ELSE NaN)
    ELSE IF IsInf(a) THEN a
    ELSE IF IsInf(b) THEN b
    ELSE Rat(a[1] * b[2] + b[1] * a[2], a[2] * b[2])

Sub(a, b) == Add(a, Neg(b))

Mul(a, b) ==
    IF IsNaN(a) \/ IsNaN(b) THEN NaN
    ELSE IF IsInf(a) \/ IsInf(b)
         THEN (IF SignOf(a) = 0 \/ SignOf(b) = 0 THEN NaN
               ELSE InfOf(SignOf(a) * SignOf(b)))
    ELSE Rat(a[1] * b[1], a[2] * b[2])

Div(a, b) ==
    IF IsNaN(a) \/ IsNaN(b) THEN NaN
    ELSE IF IsInf(a) THEN (IF IsInf(b) THEN NaN
                           ELSE IF SignOf(b) < 0 THEN Neg(a) ELSE a)
    ELSE IF IsInf(b) THEN Num(0)
    ELSE IF IsZero(b) THEN (IF IsZero(a) THEN NaN ELSE InfOf(SignOf(a)))
    ELSE Rat(a[1] * b[2], a[2] * b[1])

\* a < b; false as soon as one operand is NaN.
Lt(a, b) ==
    IF IsNaN(a) \/ IsNaN(b) THEN FALSE
    ELSE IF IsInf(a) \/ IsInf(b)
         THEN (IF IsInf(a) /\ IsInf(b) THEN a = NInf /\ b = PInf
               ELSE IF IsInf(a) THEN a = NInf
               ELSE b = PInf)
    ELSE a[1] * b[2] < b[1] * a[2]

Gt(a, b) == Lt(b, a)

\* a <= b; false as soon as one operand is NaN.
Le(a, b) == ~IsNaN(a) /\ ~IsNaN(b) /\ ~Lt(b, a)

\* a == b of C; NaN differs from everything, itself included.
Eq(a, b) == ~IsNaN(a) /\ ~IsNaN(b) /\ a = b

\* a != b of C.
Ne(a, b) == ~Eq(a, b)

(***************************************************************************)
(* Bit operations on the 4-bit outcodes.                                   *)
(***************************************************************************)
Bit(c, k) == (c \div k) % 2

\* c1 & c2 for outcodes in 0..15.
BitAnd(c1, c2) ==
      (Bit(c1, 1) * Bit(c2, 1))
    + 2 * (Bit(c1, 2) * Bit(c2, 2))
    + 4 * (Bit(c1, 4) * Bit(c2, 4))
    + 8 * (Bit(c1, 8) * Bit(c2, 8))

(***************************************************************************)
(* Boxes and the clipping macros of muPlot.h.                              *)
(***************************************************************************)
Box(xmin, xmax, ymin, ymax) ==
    [xmin |-> xmin, xmax |-> xmax, ymin |-> ymin, ymax |-> ymax]

\* The bounds the entry points derive from a possibly unordered box.
OrderedBounds(b) ==
    [xmin |-> IF Le(b.xmin, b.xmax) THEN b.xmin ELSE b.xmax,
     xmax |-> IF Le(b.xmin, b.xmax) THEN b.xmax ELSE b.xmin,
     ymin |-> IF Le(b.ymin, b.ymax) THEN b.ymin ELSE b.ymax,
     ymax |-> IF Le(b.ymin, b.ymax) THEN b.ymax ELSE b.ymin]

\* MP_CLIP_TBRL with inclusive tests: a point on a limit counts as outside.
TBRL_Inclusive(X, Y, XMIN, XMAX, YMIN, YMAX) ==
      (IF Le(X, XMIN) THEN 1 ELSE IF Le(XMAX, X) THEN 2 ELSE 0)
    + (IF Le(Y, YMIN) THEN 4 ELSE IF Le(YMAX, Y) THEN 8 ELSE 0)

\* MP_CLIP_TBRL without the parentheses around its two halves: the Y tests
\* are only reached when X is within its limits.
TBRL_Unparenthesized(X, Y, XMIN, XMAX, YMIN, YMAX) ==
    IF Lt(X, XMIN) THEN 1
    ELSE IF Gt(X, XMAX) THEN 2
    ELSE IF Lt(Y, YMIN) THEN 4
    ELSE IF Gt(Y, YMAX) THEN 8 ELSE 0

\* MP_CLIP_TBRL: the Top-Bottom-Right-Left bits of the point (X, Y).
MP_CLIP_TBRL(X, Y, XMIN, XMAX, YMIN, YMAX) ==
      (IF Lt(X, XMIN) THEN 1 ELSE IF Gt(X, XMAX) THEN 2 ELSE 0)
    + (IF Lt(Y, YMIN) THEN 4 ELSE IF Gt(Y, YMAX) THEN 8 ELSE 0)

\* The last test of MP_CLIP_INTERSECT: TRUE when the macro executes REJECT.
ClipRejects(y1, YMIN, YMAX) == Gt(y1, YMIN) \/ Gt(y1, YMAX)

\* MP_CLIP_INTERSECT, "First impose the Y-limits": the point after the step
\* and whether DX/DY was evaluated with a zero divisor.
ImposeYLimits(DX, DY, X1, Y1, X2, Y2, YMIN, YMAX) ==
    IF Gt(Y1, YMAX)
    THEN [x |-> Add(X2, Mul(Sub(YMAX, Y2), Div(DX, DY))), y |-> YMAX,
          divY |-> IsZero(DY)]
    ELSE IF Lt(Y1, YMIN)
    THEN [x |-> Add(X2, Mul(Sub(YMIN, Y2), Div(DX, DY))), y |-> YMIN,
          divY |-> IsZero(DY)]
    ELSE [x |-> X1, y |-> Y1, divY |-> FALSE]

\* "Then impose the X-limits" with inclusive tests: a point on a limit is
\* moved too.
ImposeXLimitsInclusive(p, DX, DY, X2, Y2, XMIN, XMAX) ==
    IF Le(XMAX, p.x)
    THEN [x |-> XMAX, y |-> Add(Y2, Mul(Sub(XMAX, X2), Div(DY, DX))),
          divY |-> p.divY, divX |-> IsZero(DX)]
    ELSE IF Le(p.x, XMIN)
    THEN [x |-> XMIN, y |-> Add(Y2, Mul(Sub(XMIN, X2), Div(DY, DX))),
          divY |-> p.divY, divX |-> IsZero(DX)]
    ELSE [x |-> p.x, y |-> p.y, divY |-> p.divY, divX |-> FALSE]

\* MP_CLIP_INTERSECT, "Then impose the X-limits" on the point p.
ImposeXLimits(p, DX, DY, X2, Y2, XMIN, XMAX) ==
    IF Gt(p.x, XMAX)
    THEN [x |-> XMAX, y |-> Add(Y2, Mul(Sub(XMAX, X2), Div(DY, DX))),
          divY |-> p.divY, divX |-> IsZero(DX)]
    ELSE IF Lt(p.x, XMIN)
    THEN [x |-> XMIN, y |-> Add(Y2, Mul(Sub(XMIN, X2), Div(DY, DX))),
          divY |-> p.divY, divX |-> IsZero(DX)]
    ELSE [x |-> p.x, y |-> p.y, divY |-> p.divY, divX |-> FALSE]

\* MP_CLIP_INTERSECT, the last test and the assignment of X1C, Y1C.
\* ok = FALSE when REJECT is executed (X1C, Y1C are then left unchanged);
\* divz tells whether a ratio was evaluated with a zero divisor.
LandedPoint(q, YMIN, YMAX) ==
    [ok |-> ~ClipRejects(q.y, YMIN, YMAX), x |-> q.x, y |-> q.y,
     divz |-> q.divX \/ q.divY]

\* MP_CLIP_INTERSECT: move the end-point (X1, Y1) along the segment onto the
\* window limits.
MP_CLIP_INTERSECT(DX, DY, X1, Y1, X2, Y2, XMIN, XMAX, YMIN, YMAX) ==
    LandedPoint(ImposeXLimits(ImposeYLimits(DX, DY, X1, Y1, X2, Y2, YMIN, YMAX),
                              DX, DY, X2, Y2, XMIN, XMAX),
                YMIN, YMAX)

\* The treatment of one end-point (X1, Y1) of outcode c, (X2, Y2) being the
\* other end-point: kept when c = 0 ("No needs to move"), else moved by
\* MP_CLIP_INTERSECT with the limits lim.
MoveEndPoint(c, DX, DY, X1, Y1, X2, Y2, lim) ==
    IF c = 0 THEN [ok |-> TRUE, x |-> X1, y |-> Y1, divz |-> FALSE]
    ELSE MP_CLIP_INTERSECT(DX, DY, X1, Y1, X2, Y2,
                           lim.xmin, lim.xmax, lim.ymin, lim.ymax)

\* The outcode of (x, y) relative to the bounds o.
Outcode(x, y, o) == MP_CLIP_TBRL(x, y, o.xmin, o.xmax, o.ymin, o.ymax)

(***************************************************************************)
(* Single-segment clipping.                                                *)
(***************************************************************************)
\* CLIP_SEGMENT, the branch (c1 & c2) == 0: e1, e2 are the treated first and
\* second end-points.  The outputs hold Unset before the call; an output the
\* function does not write keeps that content.
ClipSegmentEnds(c1, c2, e1, e2) ==
    IF ~e1.ok
    THEN [code |-> 0, c1 |-> c1, c2 |-> c2,
          x1c |-> Unset, y1c |-> Unset, x2c |-> Unset, y2c |-> Unset,
          divz |-> e1.divz]
    ELSE IF ~e2.ok
    THEN [code |-> 0, c1 |-> c1, c2 |-> c2,
          x1c |-> e1.x, y1c |-> e1.y, x2c |-> Unset, y2c |-> Unset,
          divz |-> e1.divz \/ e2.divz]
    ELSE [code |-> 2, c1 |-> c1, c2 |-> c2,
          x1c |-> e1.x, y1c |-> e1.y, x2c |-> e2.x, y2c |-> e2.y,
          divz |-> e1.divz \/ e2.divz]

\* CLIP_SEGMENT once the outcodes c1, c2 are known.  The code passes the
\* limits of the box as given (box->xmin, ...) to MP_CLIP_INTERSECT, not the
\* ordered ones.
ClipSegmentCoded(b, c1, c2, x1, y1, x2, y2) ==
    IF c1 = 0 /\ c2 = 0
    THEN [code |-> 1, c1 |-> c1, c2 |-> c2,
          x1c |-> x1, y1c |-> y1, x2c |-> x2, y2c |-> y2, divz |-> FALSE]
    ELSE IF BitAnd(c1, c2) = 0
    THEN ClipSegmentEnds(c1, c2,
             MoveEndPoint(c1, Sub(x2, x1), Sub(y2, y1), x1, y1, x2, y2, b),
             MoveEndPoint(c2, Sub(x2, x1), Sub(y2, y1), x2, y2, x1, y1, b))
    ELSE [code |-> 0, c1 |-> c1, c2 |-> c2,
          x1c |-> Unset, y1c |-> Unset, x2c |-> Unset, y2c |-> Unset,
          divz |-> FALSE]

\* CLIP_SEGMENT with the ordered bounds o of the box b.
ClipSegmentIn(o, b, x1, y1, x2, y2) ==
    ClipSegmentCoded(b, Outcode(x1, y1, o), Outcode(x2, y2, o), x1, y1, x2, y2)

\* CLIP_SEGMENT.
MpClipSegment(b, x1, y1, x2, y2) ==
    ClipSegmentIn(OrderedBounds(b), b, x1, y1, x2, y2)

(***************************************************************************)
(* Incremental clipping of the consecutive segments of a polyline.         *)
(***************************************************************************)
\* The clip state with the given bounds and second point; the other fields
\* are Unset (-1 for c1).
SeededState(o, x, y) ==
    [c1 |-> -1, c2 |-> Outcode(x, y, o),
     x1 |-> Unset, y1 |-> Unset, x2 |-> x, y2 |-> y,
     xmin |-> o.xmin, xmax |-> o.xmax, ymin |-> o.ymin, ymax |-> o.ymax,
     x1c |-> Unset, y1c |-> Unset, x2c |-> Unset, y2c |-> Unset]

\* _MP_INITIALIZE_CLIP (CLIP_INIT): the clip state seeded with the first point
\* (x, y) and the ordered bounds of the box b.
MpInitializeClip(x, y, b) == SeededState(OrderedBounds(b), x, y)

\* _MP_RESTART_CLIP that makes the former second point the first one, as
\* CLIP_NEXT does.
RestartRotating(w, x, y) ==
    [w EXCEPT !.c1 = w.c2, !.x1 = w.x2, !.y1 = w.y2,
              !.c2 = Outcode(x, y, w), !.x2 = x, !.y2 = y]

\* _MP_RESTART_CLIP (CLIP_RESTART).
MpRestartClip(w, x, y) ==
    [w EXCEPT !.c2 = Outcode(x, y, w), !.x2 = x, !.y2 = y]

\* CLIP_NEXT, the branch (c1 & c2) == 0 on the rotated state v: e1, e2 are
\* the treated first and second end-points.
ClipNextEnds(v, e1, e2) ==
    IF ~e1.ok THEN [w |-> v, code |-> 0, divz |-> e1.divz]
    ELSE IF ~e2.ok
    THEN [w |-> [v EXCEPT !.x1c = e1.x, !.y1c = e1.y],
          code |-> 0, divz |-> e1.divz \/ e2.divz]
    ELSE [w |-> [v EXCEPT !.x1c = e1.x, !.y1c = e1.y,
                          !.x2c = e2.x, !.y2c = e2.y],
          code |-> 2, divz |-> e1.divz \/ e2.divz]

\* CLIP_NEXT on the state v in which the points have been rotated and the
\* new end-point registered.
ClipNextRotated(v) ==
    IF v.c1 = 0 /\ v.c2 = 0 THEN [w |-> v, code |-> 1, divz |-> FALSE]
    ELSE IF BitAnd(v.c1, v.c2) = 0
    THEN ClipNextEnds(v,
             MoveEndPoint(v.c1, Sub(v.x2, v.x1), Sub(v.y2, v.y1),
                          v.x1, v.y1, v.x2, v.y2, v),
             MoveEndPoint(v.c2, Sub(v.x2, v.x1), Sub(v.y2, v.y1),
                          v.x2, v.y2, v.x1, v.y1, v))
    ELSE [w |-> v, code |-> 0, divz |-> FALSE]

\* CLIP_NEXT: the updated state and the returned code.
MpClipNext(w, x, y) ==
    ClipNextRotated([w EXCEPT !.c1 = w.c2, !.x1 = w.x2, !.y1 = w.y2,
                              !.c2 = Outcode(x, y, w), !.x2 = x, !.y2 = y])

(***************************************************************************)
(* Callbacks.  A callback environment gives the status returned by the     *)
(* k-th callback invocation of a call (move and draw counted together).    *)
(* The trace of a call lists its callback invocations in order.            *)
(***************************************************************************)
\* The environment whose k1-th invocation fails with MP_NO_MEMORY and whose
\* k2-th invocation fails with MP_OUT_OF_RANGE (0: no such invocation).
CallbackEnv(k1, k2) ==
    [k \in 1..(2 * MaxSegs + 2 * MaxPoints) |->
        IF k = k1 THEN MP_NO_MEMORY
        ELSE IF k = k2 THEN MP_OUT_OF_RANGE ELSE MP_OK]

\* Invoke callback f (move or draw) at (x, y): the trace with the invocation
\* and the status it returned appended.
Invoke(trace, env, f, x, y) ==
    Append(trace, [f |-> f, x |-> x, y |-> y, st |-> env[Len(trace) + 1]])

LastStatus(trace) == trace[Len(trace)].st

\* The draw invoked whatever the status returned by the move.
DrawAfterMoveUnchecked(t, env, x2c, y2c) == Invoke(t, env, "draw", x2c, y2c)

\* The draw that follows a move, t being the trace up to and including the
\* move: no draw when the move failed.
DrawAfterMove(t, env, x2c, y2c) ==
    IF LastStatus(t) # MP_OK THEN t ELSE Invoke(t, env, "draw", x2c, y2c)

\* move(ctx, x1c, y1c) then, if it returned MP_OK, draw(ctx, x2c, y2c).
MoveThenDraw(trace, env, x1c, y1c, x2c, y2c) ==
    DrawAfterMove(Invoke(trace, env, "move", x1c, y1c), env, x2c, y2c)

\* The result of a drawing function that stops with the trace t, the status
\* being that of its last callback invocation (MP_OK if there was none).
Returned(t) ==
    [status |-> IF t = <<>> THEN MP_OK ELSE LastStatus(t), trace |-> t]

\* DRAW_CLIPPED_SEGMENT, label accept.
DrawAccepted(env, x1c, y1c, x2c, y2c) ==
    Returned(MoveThenDraw(<<>>, env, x1c, y1c, x2c, y2c))

\* DRAW_CLIPPED_SEGMENT, the branch (c1 & c2) == 0.
DrawSegmentEnds(env, e1, e2) ==
    IF ~e1.ok \/ ~e2.ok THEN [status |-> MP_OK, trace |-> <<>>]
    ELSE DrawAccepted(env, e1.x, e1.y, e2.x, e2.y)

\* DRAW_CLIPPED_SEGMENT once the ordered bounds o and the outcodes are known.
DrawSegmentCoded(env, o, c1, c2, x1, y1, x2, y2) ==
    IF c1 = 0 /\ c2 = 0 THEN DrawAccepted(env, x1, y1, x2, y2)
    ELSE IF BitAnd(c1, c2) = 0
    THEN DrawSegmentEnds(env,
             MoveEndPoint(c1, Sub(x2, x1), Sub(y2, y1), x1, y1, x2, y2, o),
             MoveEndPoint(c2, Sub(x2, x1), Sub(y2, y1), x2, y2, x1, y1, o))
    ELSE [status |-> MP_OK, trace |-> <<>>]

DrawSegmentIn(env, o, x1, y1, x2, y2) ==
    DrawSegmentCoded(env, o, Outcode(x1, y1, o), Outcode(x2, y2, o),
                     x1, y1, x2, y2)

\* DRAW_CLIPPED_SEGMENT.
MpDrawClippedSegment(env, b, x1, y1, x2, y2) ==
    DrawSegmentIn(env, OrderedBounds(b), x1, y1, x2, y2)

(***************************************************************************)
(* Clipping of a batch of disjoint segments.  The memory of a call is the  *)
(* record [x, y, xc, yc] of the four arrays, functions of the C indices    *)
(* 0..2n-1; when the call is made in place (alias), xc is x and yc is y,   *)
(* so that a store in xc, yc is a store in x, y.                           *)
(***************************************************************************)
\* The stores xc[k] = px; yc[k] = py.
StorePoint(mem, alias, k, px, py) ==
    IF alias
    THEN [mem EXCEPT !.xc[k] = px, !.yc[k] = py, !.x[k] = px, !.y[k] = py]
    ELSE [mem EXCEPT !.xc[k] = px, !.yc[k] = py]

\* CLIP_SEGMENTS, one iteration, the branch (c1 & c2) == 0: e1, e2 are the
\* treated end-points; a rejection after the first store leaves it in place.
SegmentsStepEnds(mem, alias, j, e1, e2) ==
    IF ~e1.ok THEN [mem |-> mem, j |-> j]
    ELSE IF ~e2.ok
    THEN [mem |-> StorePoint(mem, alias, 2 * j, e1.x, e1.y), j |-> j]
    ELSE [mem |-> StorePoint(StorePoint(mem, alias, 2 * j, e1.x, e1.y),
                             alias, 2 * j + 1, e2.x, e2.y),
          j |-> j + 1]

\* CLIP_SEGMENTS, one iteration once the segment has been read into x1, y1,
\* x2, y2 and its outcodes computed.
SegmentsStepCoded(mem, alias, o, j, c1, c2, x1, y1, x2, y2) ==
    IF c1 = 0 /\ c2 = 0
    THEN [mem |-> StorePoint(StorePoint(mem, alias, 2 * j, x1, y1),
                             alias, 2 * j + 1, x2, y2),
          j |-> j + 1]
    ELSE IF BitAnd(c1, c2) = 0
    THEN SegmentsStepEnds(mem, alias, j,
             MoveEndPoint(c1, Sub(x2, x1), Sub(y2, y1), x1, y1, x2, y2, o),
             MoveEndPoint(c2, Sub(x2, x1), Sub(y2, y1), x2, y2, x1, y1, o))
    ELSE [mem |-> mem, j |-> j]

\* CLIP_SEGMENTS, the iteration for input segment i: the memory and j after.
SegmentsStep(mem, alias, o, i, j) ==
    SegmentsStepCoded(mem, alias, o, j,
        Outcode(mem.x[2 * i], mem.y[2 * i], o),
        Outcode(mem.x[2 * i + 1], mem.y[2 * i + 1], o),
        mem.x[2 * i], mem.y[2 * i], mem.x[2 * i + 1], mem.y[2 * i + 1])

\* CLIP_SEGMENTS, the loop run backwards, from the last segment to the first
\* one the loop visits.
RECURSIVE ClipSegmentsLoopBackwards(_, _, _, _, _)
ClipSegmentsLoopBackwards(st, alias, o, i, n) ==
    IF i < n
    THEN ClipSegmentsLoopBackwards(SegmentsStep(st.mem, alias, o, n - i, st.j),
                                   alias, o, i + 1, n)
    ELSE st

\* CLIP_SEGMENTS, the loop from iteration i on, st = [mem, j] being the
\* memory and the number of segments stored so far.
RECURSIVE ClipSegmentsLoop(_, _, _, _, _)
ClipSegmentsLoop(st, alias, o, i, n) ==
    IF i < n
    THEN ClipSegmentsLoop(SegmentsStep(st.mem, alias, o, i, st.j),
                          alias, o, i + 1, n)
    ELSE st

\* The result of CLIP_SEGMENTS: the returned count and the output arrays.
SegmentsResult(st) == [count |-> st.j, xc |-> st.mem.xc, yc |-> st.mem.yc]

\* CLIP_SEGMENTS on the input arrays x, y of n segments; in place when alias,
\* else with output arrays that hold Unset before the call.
MpClipSegments(alias, b, x, y, n) ==
    SegmentsResult(
        ClipSegmentsLoop(
            [mem |-> [x |-> x, y |-> y,
                      xc |-> IF alias THEN x ELSE [k \in DOMAIN x |-> Unset],
                      yc |-> IF alias THEN y ELSE [k \in DOMAIN y |-> Unset]],
             j |-> 0],
            alias, OrderedBounds(b), 1, n))

\* DRAW_CLIPPED_SEGMENTS, one iteration, the branch (c1 & c2) == 0.
DrawSegmentsEnds(env, trace, e1, e2) ==
    IF ~e1.ok \/ ~e2.ok THEN trace
    ELSE MoveThenDraw(trace, env, e1.x, e1.y, e2.x, e2.y)

\* DRAW_CLIPPED_SEGMENTS, one iteration on the segment (x1,y1)->(x2,y2): the
\* trace after it.
DrawSegmentsCoded(env, trace, o, c1, c2, x1, y1, x2, y2) ==
    IF c1 = 0 /\ c2 = 0 THEN MoveThenDraw(trace, env, x1, y1, x2, y2)
    ELSE IF BitAnd(c1, c2) # 0 THEN trace
    ELSE DrawSegmentsEnds(env, trace,
             MoveEndPoint(c1, Sub(x2, x1), Sub(y2, y1), x1, y1, x2, y2, o),
             MoveEndPoint(c2, Sub(x2, x1), Sub(y2, y1), x2, y2, x1, y1, o))

DrawSegmentsStep(env, trace, o, x, y, i) ==
    DrawSegmentsCoded(env, trace, o,
        Outcode(x[2 * i], y[2 * i], o), Outcode(x[2 * i + 1], y[2 * i + 1], o),
        x[2 * i], y[2 * i], x[2 * i + 1], y[2 * i + 1])

\* DRAW_CLIPPED_SEGMENTS, the loop from iteration i on: it breaks as soon as
\* a callback has returned a status other than MP_OK.
RECURSIVE DrawSegmentsLoop(_, _, _, _, _, _, _)
DrawSegmentsLoop(env, trace, o, x, y, i, n) ==
    IF trace # <<>> /\ LastStatus(trace) # MP_OK THEN Returned(trace)
    ELSE IF i < n
    THEN DrawSegmentsLoop(env, DrawSegmentsStep(env, trace, o, x, y, i),
                          o, x, y, i + 1, n)
    ELSE Returned(trace)

\* DRAW_CLIPPED_SEGMENTS.
MpDrawClippedSegments(env, b, x, y, n) ==
    DrawSegmentsLoop(env, <<>>, OrderedBounds(b), x, y, 1, n)

(***************************************************************************)
(* Clipping of a polyline.  x, y are the arrays of the n points, functions *)
(* of the C indices 0..n-1; the output arrays are modelled by the sequence *)
(* of the values stored at xc[0], xc[1], ... (yc likewise).                *)
(***************************************************************************)
\* CLIP_POLYLINE, the switch on the code r.code returned by CLIP_NEXT.
PolylineAppend(out, r) ==
    IF r.code = 1
    THEN [w |-> r.w,
          xc |-> out.xc \o <<r.w.x1, r.w.x2>>,
          yc |-> out.yc \o <<r.w.y1, r.w.y2>>]
    ELSE IF r.code = 2
    THEN [w |-> r.w,
          xc |-> out.xc \o <<r.w.x1c, r.w.x2c>>,
          yc |-> out.yc \o <<r.w.y1c, r.w.y2c>>]
    ELSE [w |-> r.w, xc |-> out.xc, yc |-> out.yc]

\* CLIP_POLYLINE, the loop from point i on.
RECURSIVE ClipPolylineLoop(_, _, _, _, _)
ClipPolylineLoop(out, x, y, i, n) ==
    IF i < n
    THEN ClipPolylineLoop(PolylineAppend(out, MpClipNext(out.w, x[i], y[i])),
                          x, y, i + 1, n)
    ELSE [count |-> Len(out.xc) \div 2, xc |-> out.xc, yc |-> out.yc]

\* CLIP_POLYLINE.
MpClipPolyline(b, x, y, n) ==
    IF n >= 2
    THEN ClipPolylineLoop([w |-> MpInitializeClip(x[0], y[0], b),
                           xc |-> <<>>, yc |-> <<>>], x, y, 1, n)
    ELSE [count |-> 0, xc |-> <<>>, yc |-> <<>>]

\* The segment taken from the raw end-points whatever the code.
ReportedUnclipped(r) ==
    [x1 |-> r.w.x1, y1 |-> r.w.y1, x2 |-> r.w.x2, y2 |-> r.w.y2]

\* The segment CLIP_NEXT reports with the result r (r.code # 0).
ReportedSegment(r) ==
    IF r.code = 1
    THEN [x1 |-> r.w.x1, y1 |-> r.w.y1, x2 |-> r.w.x2, y2 |-> r.w.y2]
    ELSE [x1 |-> r.w.x1c, y1 |-> r.w.y1c, x2 |-> r.w.x2c, y2 |-> r.w.y2c]

\* The test of DRAW_CLIPPED_POLYLINE with y1 compared with x2p.
NeedsMoveMistyped(d, g) == d.flag \/ Ne(g.x1, d.x2p) \/ Ne(g.y1, d.x2p)

\* DRAW_CLIPPED_POLYLINE, the test that decides whether move is invoked.
NeedsMove(d, g) == d.flag \/ Ne(g.x1, d.x2p) \/ Ne(g.y1, d.y2p)

\* DRAW_CLIPPED_POLYLINE, the callbacks for the segment g: the trace after.
DrawPolylineEmit(env, d, g) ==
    IF NeedsMove(d, g)
    THEN MoveThenDraw(d.trace, env, g.x1, g.y1, g.x2, g.y2)
    ELSE Invoke(d.trace, env, "draw", g.x2, g.y2)

\* DRAW_CLIPPED_POLYLINE, the body of the loop for a segment g to draw:
\* flag, x2p and y2p are only updated when both callbacks succeeded (the
\* function returns otherwise).
DrawPolylineDrawn(d, w, g, t) ==
    IF LastStatus(t) # MP_OK
    THEN [w |-> w, flag |-> d.flag, x2p |-> d.x2p, y2p |-> d.y2p, trace |-> t]
    ELSE [w |-> w, flag |-> FALSE, x2p |-> g.x2, y2p |-> g.y2, trace |-> t]

\* DRAW_CLIPPED_POLYLINE, one iteration, r being the result of CLIP_NEXT.
DrawPolylineStep(env, d, r) ==
    IF r.code = 0 THEN [d EXCEPT !.w = r.w]
    ELSE DrawPolylineDrawn(d, r.w, ReportedSegment(r),
                           DrawPolylineEmit(env, d, ReportedSegment(r)))

\* DRAW_CLIPPED_POLYLINE, the loop from point i on: it returns as soon as a
\* callback has returned a status other than MP_OK.
RECURSIVE DrawPolylineLoop(_, _, _, _, _, _)
DrawPolylineLoop(env, d, x, y, i, n) ==
    IF d.trace # <<>> /\ LastStatus(d.trace) # MP_OK THEN Returned(d.trace)
    ELSE IF i < n
    THEN DrawPolylineLoop(env,
             DrawPolylineStep(env, d, MpClipNext(d.w, x[i], y[i])),
             x, y, i + 1, n)
    ELSE Returned(d.trace)

\* DRAW_CLIPPED_POLYLINE.
MpDrawClippedPolyline(env, b, x, y, n) ==
    IF n >= 2
    THEN DrawPolylineLoop(env,
             [w |-> MpInitializeClip(x[0], y[0], b), flag |-> TRUE,
              x2p |-> Num(0), y2p |-> Num(0), trace |-> <<>>],
             x, y, 1, n)
    ELSE Returned(<<>>)

(***************************************************************************)
(* Specification SpecSegment: one call of a single-segment entry point on  *)
(* a box and a segment drawn from a grid or from the documented scenarios. *)
(***************************************************************************)
Coords == {Num(k) : k \in 0..MaxCoord}

\* Boxes on the grid: ordered, unordered and degenerate ones.
GridBoxes ==
    {Box(Num(a), Num(b), Num(c), Num(d)) :
        a \in {1, MaxCoord - 1}, b \in {1, MaxCoord - 1},
        c \in {1, MaxCoord - 2}, d \in {1, MaxCoord - 2}}

\* The box {0,10,0,10} of the documented scenarios.
ScenarioBox == Box(Num(0), Num(10), Num(0), Num(10))

\* The segments of the documented scenarios: <<x1, x2>>, <<y1, y2>>.
ScenarioSegments ==
    {<< <<Num(-5), Num(5)>>, <<Num(5), Num(5)>> >>,
     << <<Num(-5), Num(-1)>>, <<Num(-5), Num(-1)>> >>}

IsOrdered(b) == Le(b.xmin, b.xmax) /\ Le(b.ymin, b.ymax)

NoResult == [op |-> "none"]

\* The clipping functions work on their arguments only: no other object.
NoObjects == <<>>

InitSegment ==
    /\ pc = "call"
    /\ res = NoResult
    /\ obj = NoObjects
    /\ \/ /\ box \in GridBoxes
          /\ xs \in [1..2 -> Coords]
          /\ ys \in [1..2 -> Coords]
       \/ /\ box = ScenarioBox
          /\ \E s \in ScenarioSegments : xs = s[1] /\ ys = s[2]

\* A call of MpClipSegment on the segment (xs[1],ys[1]) -> (xs[2],ys[2]).
ClipSegmentCall ==
    /\ pc = "call"
    /\ pc' = "MpClipSegment"
    /\ res' = MpClipSegment(box, xs[1], ys[1], xs[2], ys[2])
    /\ UNCHANGED <<box, xs, ys, obj>>

\* A call of MpDrawClippedSegment with some callbacks.
DrawClippedSegmentCall ==
    /\ pc = "call"
    /\ pc' = "MpDrawClippedSegment"
    /\ \E k1 \in 0..2 : \E k2 \in {0, k1 + 1} :
          res' = MpDrawClippedSegment(CallbackEnv(k1, k2), box,
                                      xs[1], ys[1], xs[2], ys[2])
    /\ UNCHANGED <<box, xs, ys, obj>>

\* A call of MpInitializeClip on the first point of xs, ys.
InitializeClipCall ==
    /\ pc = "call"
    /\ Len(xs) >= 1
    /\ pc' = "clip"
    /\ res' = [w |-> MpInitializeClip(xs[1], ys[1], box),
               n |-> 1, code |-> -1, divz |-> FALSE]
    /\ UNCHANGED <<box, xs, ys, obj>>

\* A call of MpClipNext on the next point of xs, ys.
ClipNextCall ==
    /\ pc = "clip"
    /\ res.n < Len(xs)
    /\ LET r == MpClipNext(res.w, xs[res.n + 1], ys[res.n + 1])
       IN  res' = [w |-> r.w, n |-> res.n + 1, code |-> r.code,
                   divz |-> r.divz]
    /\ UNCHANGED <<box, xs, ys, pc, obj>>

\* A call of MpRestartClip on the next point of xs, ys: a new polyline
\* starts there.
RestartClipCall ==
    /\ pc = "clip"
    /\ res.n < Len(xs)
    /\ res' = [w |-> MpRestartClip(res.w, xs[res.n + 1], ys[res.n + 1]),
               n |-> res.n + 1, code |-> -1, divz |-> FALSE]
    /\ UNCHANGED <<box, xs, ys, pc, obj>>

NextSegment ==
    \/ ClipSegmentCall
    \/ DrawClippedSegmentCall
    \/ InitializeClipCall
    \/ ClipNextCall

SpecSegment == InitSegment /\ [][NextSegment]_vars

(***************************************************************************)
(* Specification SpecBatch: one call of a batch entry point on a box and   *)
(* at most MaxSegs disjoint segments.                                      *)
(***************************************************************************)
\* The C array (indices from 0) stored in the sequence q.
CArray(q) == [k \in 0..(Len(q) - 1) |-> q[k + 1]]

\* The grid boxes of non-zero width and height: ordered or not on each axis.
ProperBoxes == {b \in GridBoxes : b.xmin # b.xmax /\ b.ymin # b.ymax}

\* The segments <<x1, y1, x2, y2>> a batch is made of.
SegmentPool ==
    {<<1, 1, 2, 2>>, <<0, 0, 0, 3>>, <<2, 0, 2, 2>>, <<2, 0, 2, 3>>}

InitBatch ==
    /\ pc = "call"
    /\ res = NoResult
    /\ obj = NoObjects
    /\ box \in ProperBoxes
    /\ \E n \in 0..MaxSegs : \E f \in [1..n -> SegmentPool] :
          /\ xs = [k \in 1..(2 * n) |->
                      Num(f[(k + 1) \div 2][IF k % 2 = 1 THEN 1 ELSE 3])]
          /\ ys = [k \in 1..(2 * n) |->
                      Num(f[(k + 1) \div 2][IF k % 2 = 1 THEN 2 ELSE 4])]

\* A call of MpClipSegments with output arrays distinct from the input ones.
ClipSegmentsCall ==
    /\ pc = "call"
    /\ pc' = "MpClipSegments"
    /\ res' = MpClipSegments(FALSE, box, CArray(xs), CArray(ys), Len(xs) \div 2)
    /\ UNCHANGED <<box, xs, ys, obj>>

\* A call of MpClipSegments in place (xc == x and yc == y); xs, ys keep the
\* content of the arrays before the call.
ClipSegmentsInPlaceCall ==
    /\ pc = "call"
    /\ pc' = "MpClipSegmentsInPlace"
    /\ res' = MpClipSegments(TRUE, box, CArray(xs), CArray(ys), Len(xs) \div 2)
    /\ UNCHANGED <<box, xs, ys, obj>>

\* A call of MpDrawClippedSegments with some callbacks.
DrawClippedSegmentsCall ==
    /\ pc = "call"
    /\ pc' = "MpDrawClippedSegments"
    /\ \E k1 \in 0..(2 * MaxSegs) : \E k2 \in {0, k1 + 1} :
          res' = MpDrawClippedSegments(CallbackEnv(k1, k2), box,
                     CArray(xs), CArray(ys), Len(xs) \div 2)
    /\ UNCHANGED <<box, xs, ys, obj>>

NextBatch ==
    \/ ClipSegmentsCall
    \/ ClipSegmentsInPlaceCall
    \/ DrawClippedSegmentsCall

SpecBatch == InitBatch /\ [][NextBatch]_vars

(***************************************************************************)
(* Specification SpecPolyline: calls of the polyline entry points on a box *)
(* and a polyline of at most MaxPoints points.                             *)
(***************************************************************************)
\* The points <<x, y>> a polyline is made of.
PointPool ==
    {<<0, 0>>, <<2, 0>>, <<1, 1>>, <<2, 2>>, <<4, 2>>, <<2, 3>>}

InitPolyline ==
    /\ pc = "call"
    /\ res = NoResult
    /\ obj = NoObjects
    /\ box \in ProperBoxes
    /\ \E n \in 0..MaxPoints : \E f \in [1..n -> PointPool] :
          /\ xs = [k \in 1..n |-> Num(f[k][1])]
          /\ ys = [k \in 1..n |-> Num(f[k][2])]

\* A call of MpClipPolyline.
ClipPolylineCall ==
    /\ pc = "call"
    /\ pc' = "MpClipPolyline"
    /\ res' = MpClipPolyline(box, CArray(xs), CArray(ys), Len(xs))
    /\ UNCHANGED <<box, xs, ys, obj>>

\* A call of MpDrawClippedPolyline with some callbacks.
DrawClippedPolylineCall ==
    /\ pc = "call"
    /\ pc' = "MpDrawClippedPolyline"
    /\ \E k1 \in 0..(2 * MaxPoints) : \E k2 \in {0, k1 + 1} :
          res' = MpDrawClippedPolyline(CallbackEnv(k1, k2), box,
                     CArray(xs), CArray(ys), Len(xs))
    /\ UNCHANGED <<box, xs, ys, obj>>

NextPolyline ==
    \/ ClipPolylineCall
    \/ DrawClippedPolylineCall
    \/ InitializeClipCall
    \/ ClipNextCall
    \/ RestartClipCall

SpecPolyline == InitPolyline /\ [][NextPolyline]_vars

(***************************************************************************)
(* Properties of single-segment clipping.                                  *)
(***************************************************************************)
\* The point (x, y) lies in the box: xmin <= x <= xmax and ymin <= y <= ymax.
InsideBox(b, x, y) ==
    Le(b.xmin, x) /\ Le(x, b.xmax) /\ Le(b.ymin, y) /\ Le(y, b.ymax)

\* Both points lie strictly on the same outer side of the box.
SameOuterSide(b, x1, y1, x2, y2) ==
    \/ Lt(x1, b.xmin) /\ Lt(x2, b.xmin)
    \/ Gt(x1, b.xmax) /\ Gt(x2, b.xmax)
    \/ Lt(y1, b.ymin) /\ Lt(y2, b.ymin)
    \/ Gt(y1, b.ymax) /\ Gt(y2, b.ymax)

ClippedSegment(r) == <<r.x1c, r.y1c, r.x2c, r.y2c>>

\* C1: for an ordered box and a segment whose two end-points are inside the
\* box, MpClipSegment returns code 1 and the clipped outputs are exactly the
\* input coordinates.
C1_InsideSegmentUnchanged ==
    (/\ pc = "MpClipSegment"
     /\ IsOrdered(box)
     /\ InsideBox(box, xs[1], ys[1])
     /\ InsideBox(box, xs[2], ys[2]))
    => (/\ res.code = 1
        /\ ClippedSegment(res) = <<xs[1], ys[1], xs[2], ys[2]>>)

\* C1 witness: a segment with an end-point on the edge of an ordered,
\* non-degenerate box has been clipped with code 1.
C1_Witness ==
    /\ pc = "MpClipSegment"
    /\ IsOrdered(box)
    /\ Lt(box.xmin, box.xmax)
    /\ InsideBox(box, xs[1], ys[1])
    /\ InsideBox(box, xs[2], ys[2])
    /\ xs[1] = box.xmin
    /\ xs[2] # xs[1]
    /\ res.code = 1

\* C2: for an ordered box and a segment whose end-point outcodes share a set
\* bit (both end-points beyond the same limit), MpClipSegment returns 0; in
\* particular for the box {0,10,0,10} and the segment (-5,-5)->(-1,-1).
C2_TriviallyOutsideRejected ==
    (/\ pc = "MpClipSegment"
     /\ IsOrdered(box)
     /\ SameOuterSide(box, xs[1], ys[1], xs[2], ys[2]))
    => res.code = 0

\* C2 witness: the documented scenario has been clipped and rejected.
C2_Witness ==
    /\ pc = "MpClipSegment"
    /\ box = ScenarioBox
    /\ xs = <<Num(-5), Num(-1)>>
    /\ ys = <<Num(-5), Num(-1)>>
    /\ res.c1 = 5
    /\ res.c2 = 5
    /\ res.code = 0

\* C3: clipping (-5,5)->(5,5) against the box {0,10,0,10} computes the
\* outcodes 1 and 0, returns code 2 and yields the segment (0,5)->(5,5).
C3_ScenarioClipped ==
    (/\ pc = "MpClipSegment"
     /\ box = ScenarioBox
     /\ xs = <<Num(-5), Num(5)>>
     /\ ys = <<Num(5), Num(5)>>)
    => (/\ res.c1 = 1
        /\ res.c2 = 0
        /\ res.code = 2
        /\ ClippedSegment(res) = <<Num(0), Num(5), Num(5), Num(5)>>)

\* C4: for an ordered box and a segment with one end-point inside the box
\* and the other outside, MpClipSegment returns 2, never 0.
C4_CrossingSegmentAccepted ==
    (/\ pc = "MpClipSegment"
     /\ IsOrdered(box)
     /\ InsideBox(box, xs[1], ys[1]) # InsideBox(box, xs[2], ys[2]))
    => res.code = 2

\* C5: when MpClipSegment or MpClipNext returns code 2 for an ordered box,
\* both clipped end-points lie inside the box.
C5_ClippedSegmentInsideBox ==
    /\ (/\ pc = "MpClipSegment"
        /\ IsOrdered(box)
        /\ res.code = 2)
       => (/\ InsideBox(box, res.x1c, res.y1c)
           /\ InsideBox(box, res.x2c, res.y2c))
    /\ (/\ pc = "clip"
        /\ IsOrdered(box)
        /\ res.code = 2)
       => (/\ InsideBox(box, res.w.x1c, res.w.y1c)
           /\ InsideBox(box, res.w.x2c, res.w.y2c))

(***************************************************************************)
(* Properties of batch and polyline clipping.                              *)
(***************************************************************************)
\* The results of MpClipSegment that are not rejections, in order.
NotRejected(clips) == SelectSeq(clips, LAMBDA r : r.code # 0)

\* MpClipSegment applied to each of the segments stored in xs, ys as a batch.
BatchClips ==
    [i \in 1..(Len(xs) \div 2) |->
        MpClipSegment(box, xs[2 * i - 1], ys[2 * i - 1], xs[2 * i], ys[2 * i])]

\* MpClipSegment applied to each consecutive pair of the polyline xs, ys.
PairClips ==
    [i \in 1..(IF Len(xs) >= 2 THEN Len(xs) - 1 ELSE 0) |->
        MpClipSegment(box, xs[i], ys[i], xs[i + 1], ys[i + 1])]

\* Output slot j (from 0) of the arrays xc, yc holds the clipped segment r.
SlotHolds(xc, yc, j, r) ==
    /\ xc[2 * j] = r.x1c
    /\ yc[2 * j] = r.y1c
    /\ xc[2 * j + 1] = r.x2c
    /\ yc[2 * j + 1] = r.y2c

\* C6: MpClipSegments on n disjoint segments returns the number of input
\* segments, segment 0 included, that MpClipSegment does not reject, and
\* output slot j holds the clipped j-th non-rejected segment, in input order.
C6_BatchKeepsEveryAcceptedSegment ==
    pc = "MpClipSegments"
    => LET kept == NotRejected(BatchClips)
       IN  /\ res.count = Len(kept)
           /\ \A j \in 1..Len(kept) : SlotHolds(res.xc, res.yc, j - 1, kept[j])

\* C7: MpClipSegments called in place (xc == x, yc == y) returns the same
\* count and the same first count output segments as the call on the same
\* inputs with separate output arrays.
C7_InPlaceSameAsSeparate ==
    pc = "MpClipSegmentsInPlace"
    => LET sep == MpClipSegments(FALSE, box, CArray(xs), CArray(ys),
                                 Len(xs) \div 2)
       IN  /\ res.count = sep.count
           /\ \A k \in 0..(2 * sep.count - 1) :
                 res.xc[k] = sep.xc[k] /\ res.yc[k] = sep.yc[k]

\* C7 witness: an in-place call has kept at least two segments and has
\* overwritten input coordinates among the slots it returns.
C7_Witness ==
    /\ pc = "MpClipSegmentsInPlace"
    /\ res.count >= 2
    /\ \E k \in 0..(2 * res.count - 1) :
          res.xc[k] # xs[k + 1] \/ res.yc[k] # ys[k + 1]

\* C8: MpClipPolyline yields the end-points of the consecutive pairs that
\* MpClipSegment does not reject, in order, and returns their number (0 for
\* fewer than two points).
C8_PolylineAsDisjointPairs ==
    pc = "MpClipPolyline"
    => LET kept == NotRejected(PairClips)
       IN  /\ res.count = Len(kept)
           /\ Len(res.xc) = 2 * Len(kept)
           /\ Len(res.yc) = 2 * Len(kept)
           /\ \A j \in 1..Len(kept) :
                 /\ res.xc[2 * j - 1] = kept[j].x1c
                 /\ res.yc[2 * j - 1] = kept[j].y1c
                 /\ res.xc[2 * j] = kept[j].x2c
                 /\ res.yc[2 * j] = kept[j].y2c

\* C8 restricted to ordered boxes.
C8_OrderedBox == IsOrdered(box) => C8_PolylineAsDisjointPairs

(***************************************************************************)
(* Properties of the callback-driven variants.                             *)
(***************************************************************************)
\* Every callback of the environment of the call returned MP_OK.
AllReturnedOK(trace) == \A k \in 1..Len(trace) : trace[k].st = MP_OK

\* The names of the callbacks invoked, in order.
Callbacks(trace) == [k \in 1..Len(trace) |-> trace[k].f]

\* Invocations k - 1 and k of the trace are at the same point, by value.
SamePoint(trace, k) ==
    Eq(trace[k].x, trace[k - 1].x) /\ Eq(trace[k].y, trace[k - 1].y)

\* C9: in MpDrawClippedPolyline, move is invoked for an emitted segment only
\* if it is the first emitted segment of the call or its first end-point
\* differs by value from the second end-point of the previously emitted
\* segment (the point of the preceding draw); two consecutive accepted
\* segments sharing an end-point give the callbacks move, draw, draw.
C9_MoveOnlyWhenPenLifted ==
    pc = "MpDrawClippedPolyline"
    => /\ \A k \in 2..Len(res.trace) :
             res.trace[k].f = "move"
             => (res.trace[k - 1].f = "draw" /\ ~SamePoint(res.trace, k))
       /\ (/\ Len(xs) = 3
           /\ AllReturnedOK(res.trace)
           /\ LET c == MpClipPolyline(box, CArray(xs), CArray(ys), 3)
              IN  /\ c.count = 2
                  /\ Eq(c.xc[2], c.xc[3])
                  /\ Eq(c.yc[2], c.yc[3]))
          => Callbacks(res.trace) = <<"move", "draw", "draw">>

\* C9 witness: a polyline whose two segments are both clipped (code 2) and
\* share their clipped end-point has been drawn with move, draw, draw.
C9_Witness ==
    /\ pc = "MpDrawClippedPolyline"
    /\ Len(xs) = 3
    /\ ~InsideBox(OrderedBounds(box), xs[2], ys[2])
    /\ AllReturnedOK(res.trace)
    /\ Callbacks(res.trace) = <<"move", "draw", "draw">>

\* C9 witness of a pen lift: two segments that do not share an end-point
\* have been drawn with move, draw, move, draw.
C9_PenLiftWitness ==
    /\ pc = "MpDrawClippedPolyline"
    /\ AllReturnedOK(res.trace)
    /\ Callbacks(res.trace) = <<"move", "draw", "move", "draw">>

\* C10: in MpDrawClippedSegment, MpDrawClippedPolyline and
\* MpDrawClippedSegments no callback is invoked after one that returned a
\* status other than MP_OK, and the function returns the status of that
\* callback; it returns MP_OK if every callback returned MP_OK.
C10_FirstFailureReturned ==
    pc \in {"MpDrawClippedSegment", "MpDrawClippedPolyline",
            "MpDrawClippedSegments"}
    => /\ \A k \in 1..(Len(res.trace) - 1) : res.trace[k].st = MP_OK
       /\ AllReturnedOK(res.trace) => res.status = MP_OK
       /\ ~AllReturnedOK(res.trace)
          => res.status = res.trace[Len(res.trace)].st

\* C10 witness: a polyline of two segments to draw, of which the draw of the
\* first failed with MP_NO_MEMORY: the call returned that status after two
\* callbacks, the second segment not being drawn.
C10_Witness ==
    /\ pc = "MpDrawClippedPolyline"
    /\ MpClipPolyline(box, CArray(xs), CArray(ys), Len(xs)).count = 2
    /\ Len(res.trace) = 2
    /\ res.trace[1].st = MP_OK
    /\ res.status = MP_NO_MEMORY

(***************************************************************************)
(* Specification SpecDraw: one call of one of the three callback-driven    *)
(* variants, on the arrays of a batch or of a polyline (MpDrawClippedSegment *)
(* on two points).                                                         *)
(***************************************************************************)
InitDraw == InitBatch \/ InitPolyline

NextDraw ==
    \/ (Len(xs) = 2 /\ DrawClippedSegmentCall)
    \/ (Len(xs) % 2 = 0 /\ DrawClippedSegmentsCall)
    \/ DrawClippedPolylineCall

SpecDraw == InitDraw /\ [][NextDraw]_vars

(***************************************************************************)
(* Properties of the drawing of a batch of segments.                       *)
(***************************************************************************)
\* Invocations 2j-1 and 2j of the trace are move at the first end-point and
\* draw at the second end-point of the clipped segment r.
DrawnAt(trace, j, r) ==
    /\ trace[2 * j - 1].f = "move"
    /\ trace[2 * j - 1].x = r.x1c
    /\ trace[2 * j - 1].y = r.y1c
    /\ trace[2 * j].f = "draw"
    /\ trace[2 * j].x = r.x2c
    /\ trace[2 * j].y = r.y2c

\* C11: MpDrawClippedSegments, when every callback returns MP_OK, returns
\* MP_OK and invokes, for the input segments 0..n-1 in order, one move then
\* one draw at the clipped end-points of each segment MpClipSegment accepts,
\* and nothing for a rejected segment.
C11_EverySegmentDrawn ==
    (pc = "MpDrawClippedSegments" /\ AllReturnedOK(res.trace))
    => LET kept == NotRejected(BatchClips)
       IN  /\ res.status = MP_OK
           /\ Len(res.trace) = 2 * Len(kept)
           /\ \A j \in 1..Len(kept) : DrawnAt(res.trace, j, kept[j])

(***************************************************************************)
(* Properties of clipping with an unordered box.                           *)
(***************************************************************************)
\* Two results of MpClipSegment have the same code and, unless rejected,
\* the same clipped end-points.
SameClip(r, s) ==
    /\ r.code = s.code
    /\ r.code # 0 => ClippedSegment(r) = ClippedSegment(s)

\* The result r of MpClipSegment agrees with the result n of MpClipNext.
SameAsClipNext(r, n) ==
    /\ r.code = n.code
    /\ r.code # 0
       => LET g == ReportedSegment(n)
          IN  ClippedSegment(r) = <<g.x1, g.y1, g.x2, g.y2>>

\* C12: MpClipSegment called with a box whose limits are swapped on one or
\* both axes returns the same code and clipped end-points as when called
\* with the reordered box, and agrees with MpClipNext seeded by
\* MpInitializeClip on the same box.
C12_UnorderedBoxReordered ==
    pc = "MpClipSegment"
    => /\ SameClip(res, MpClipSegment(OrderedBounds(box),
                                      xs[1], ys[1], xs[2], ys[2]))
       /\ SameAsClipNext(res, MpClipNext(MpInitializeClip(xs[1], ys[1], box),
                                         xs[2], ys[2]))

(***************************************************************************)
(* Boxes and simple mappings (src/src/mappings.c).  The functions receive  *)
(* their operands by address: mem is the memory, a function from object    *)
(* names to records, and dst, inp, out, src, a, b are names.  The stores   *)
(* are applied in the order of the code, so that a later read of an object *)
(* that aliases the destination sees the values already stored.            *)
(***************************************************************************)
MP_SINGULAR == 16

MP_FLIP_X == 1

MP_FLIP_Y == 2

\* ((x) - (x)) == 0
MP_IS_FINITE(x) == Eq(Sub(x, x), Num(0))

\* (x) != (x)
MP_IS_NAN(x) == Ne(x, x)

Mapping(xx, x, yy, y) == [xx |-> xx, x |-> x, yy |-> yy, y |-> y]

\* A mapping and a box no code has written yet.
UnsetMapping == Mapping(Unset, Unset, Unset, Unset)

UnsetBox == Box(Unset, Unset, Unset, Unset)

\* MP_APPLY_SIMPLE_MAPPING_X and MP_APPLY_SIMPLE_MAPPING_Y.
ApplyMappingX(A, x) == Add(Mul(A.xx, x), A.x)

ApplyMappingY(A, y) == Add(Mul(A.yy, y), A.y)

\* _MP_CHECK_BOX.
MpCheckBox(b) ==
    IF /\ MP_IS_FINITE(b.xmin)
       /\ MP_IS_FINITE(b.xmax)
       /\ MP_IS_FINITE(b.ymin)
       /\ MP_IS_FINITE(b.ymax)
    THEN MP_OK ELSE MP_SINGULAR

\* _MP_CHECK_MAPPING.
MpCheckMapping(A) ==
    IF /\ MP_IS_FINITE(A.xx)
       /\ MP_IS_FINITE(A.x)
       /\ MP_IS_FINITE(A.yy)
       /\ MP_IS_FINITE(A.y)
    THEN MP_OK ELSE MP_SINGULAR

\* The end of the mapping functions: return CHECK_MAPPING(dst).
CheckedMapping(mem, dst) == [status |-> MpCheckMapping(mem[dst]), mem |-> mem]

\* REORDER_BOX_LIMITS, the in-place branch (dst == src).
ReorderSwapX(mem, dst) ==
    IF Gt(mem[dst].xmin, mem[dst].xmax)
    THEN [mem EXCEPT ![dst].xmin = mem[dst].xmax, ![dst].xmax = mem[dst].xmin]
    ELSE mem

ReorderSwapY(mem, dst) ==
    IF Gt(mem[dst].ymin, mem[dst].ymax)
    THEN [mem EXCEPT ![dst].ymin = mem[dst].ymax, ![dst].ymax = mem[dst].ymin]
    ELSE mem

\* The out-of-place copy of the x limits without the test of their order.
ReorderCopyXPlain(mem, dst, src) ==
    [mem EXCEPT ![dst].xmin = mem[src].xmin, ![dst].xmax = mem[src].xmax]

\* REORDER_BOX_LIMITS, the out-of-place branch (dst != src).
ReorderCopyX(mem, dst, src) ==
    IF Le(mem[src].xmin, mem[src].xmax)
    THEN [mem EXCEPT ![dst].xmin = mem[src].xmin, ![dst].xmax = mem[src].xmax]
    ELSE [mem EXCEPT ![dst].xmin = mem[src].xmax, ![dst].xmax = mem[src].xmin]

ReorderCopyY(mem, dst, src) ==
    IF Le(mem[src].ymin, mem[src].ymax)
    THEN [mem EXCEPT ![dst].ymin = mem[src].ymin, ![dst].ymax = mem[src].ymax]
    ELSE [mem EXCEPT ![dst].ymin = mem[src].ymax, ![dst].ymax = mem[src].ymin]

\* REORDER_BOX_LIMITS.
MpReorderBoxLimits(mem, dst, src) ==
    IF MpCheckBox(mem[src]) # MP_OK
    THEN [status |-> MpCheckBox(mem[src]), mem |-> mem]
    ELSE IF dst = src
    THEN [status |-> MP_OK, mem |-> ReorderSwapY(ReorderSwapX(mem, dst), dst)]
    ELSE [status |-> MP_OK,
          mem |-> ReorderCopyY(ReorderCopyX(mem, dst, src), dst, src)]

\* The output limits swapped on the axes the flip mask selects.
FlippedOutputSwapped(out, flip) ==
    [xmin |-> IF BitAnd(flip, MP_FLIP_X) = 0 THEN out.xmin ELSE out.xmax,
     xmax |-> IF BitAnd(flip, MP_FLIP_X) = 0 THEN out.xmax ELSE out.xmin,
     ymin |-> IF BitAnd(flip, MP_FLIP_Y) = 0 THEN out.ymin ELSE out.ymax,
     ymax |-> IF BitAnd(flip, MP_FLIP_Y) = 0 THEN out.ymax ELSE out.ymin]

\* DEFINE_MAPPING, the output limits selected by the flip mask: the two
\* branches of each test are the same assignments.
FlippedOutput(out, flip) ==
    [xmin |-> IF BitAnd(flip, MP_FLIP_X) = 0 THEN out.xmin ELSE out.xmin,
     xmax |-> IF BitAnd(flip, MP_FLIP_X) = 0 THEN out.xmax ELSE out.xmax,
     ymin |-> IF BitAnd(flip, MP_FLIP_Y) = 0 THEN out.ymin ELSE out.ymin,
     ymax |-> IF BitAnd(flip, MP_FLIP_Y) = 0 THEN out.ymax ELSE out.ymax]

\* DEFINE_MAPPING, the four coefficients stored in dst.
DefineMappingCoefs(inp, o, dx, dy) ==
    Mapping(Div(Sub(o.xmax, o.xmin), dx),
            Div(Sub(Mul(inp.xmax, o.xmin), Mul(inp.xmin, o.xmax)), dx),
            Div(Sub(o.ymax, o.ymin), dy),
            Div(Sub(Mul(inp.ymax, o.ymin), Mul(inp.ymin, o.ymax)), dy))

\* DEFINE_MAPPING without the test of a degenerate input box.
DefineMappingUnguarded(mem, dst, inp, out, flip, dx, dy) ==
    CheckedMapping(
        [mem EXCEPT ![dst] = DefineMappingCoefs(mem[inp],
                                 FlippedOutput(mem[out], flip), dx, dy)],
        dst)

\* DEFINE_MAPPING once dx and dy are computed.
DefineMappingScaled(mem, dst, inp, out, flip, dx, dy) ==
    IF Eq(dx, Num(0)) \/ Eq(dy, Num(0))
    THEN [status |-> MP_SINGULAR, mem |-> mem]
    ELSE CheckedMapping(
             [mem EXCEPT ![dst] = DefineMappingCoefs(mem[inp],
                                      FlippedOutput(mem[out], flip), dx, dy)],
             dst)

\* DEFINE_MAPPING.
MpDefineMapping(mem, dst, inp, out, flip) ==
    DefineMappingScaled(mem, dst, inp, out, flip,
                        Sub(mem[inp].xmax, mem[inp].xmin),
                        Sub(mem[inp].ymax, mem[inp].ymin))

\* COMPOSE_MAPPINGS, its four stores.
ComposeStoreX(mem, dst, a, b) ==
    [mem EXCEPT ![dst].x = Add(Mul(mem[a].xx, mem[b].x), mem[a].x)]

ComposeStoreXX(mem, dst, a, b) ==
    [mem EXCEPT ![dst].xx = Mul(mem[a].xx, mem[b].xx)]

ComposeStoreY(mem, dst, a, b) ==
    [mem EXCEPT ![dst].y = Add(Mul(mem[a].yy, mem[b].y), mem[a].y)]

ComposeStoreYY(mem, dst, a, b) ==
    [mem EXCEPT ![dst].yy = Mul(mem[a].yy, mem[b].yy)]

\* COMPOSE_MAPPINGS with each scale stored before its translation.
ComposeScaleFirst(mem, dst, a, b) ==
    CheckedMapping(
        ComposeStoreY(
            ComposeStoreYY(
                ComposeStoreX(ComposeStoreXX(mem, dst, a, b), dst, a, b),
                dst, a, b),
            dst, a, b),
        dst)

\* COMPOSE_MAPPINGS.
MpComposeMappings(mem, dst, a, b) ==
    CheckedMapping(
        ComposeStoreYY(
            ComposeStoreY(
                ComposeStoreXX(ComposeStoreX(mem, dst, a, b), dst, a, b),
                dst, a, b),
            dst, a, b),
        dst)

\* The store of the translation of the inverse without the change of sign.
InvertStoreXUnnegated(mem, dst, a) ==
    [mem EXCEPT ![dst].x = Div(mem[a].x, mem[a].xx)]

\* INVERT_MAPPING, its four stores.
InvertStoreX(mem, dst, a) ==
    [mem EXCEPT ![dst].x = Div(Neg(mem[a].x), mem[a].xx)]

InvertStoreXX(mem, dst, a) ==
    [mem EXCEPT ![dst].xx = Div(Num(1), mem[a].xx)]

InvertStoreY(mem, dst, a) ==
    [mem EXCEPT ![dst].y = Div(Neg(mem[a].y), mem[a].yy)]

InvertStoreYY(mem, dst, a) ==
    [mem EXCEPT ![dst].yy = Div(Num(1), mem[a].yy)]

\* INVERT_MAPPING, the test of a singular operand.
InvertRejects(A) ==
    \/ MP_IS_NAN(A.xx) \/ Eq(A.xx, Num(0))
    \/ MP_IS_NAN(A.yy) \/ Eq(A.yy, Num(0))

\* INVERT_MAPPING.
MpInvertMapping(mem, dst, a) ==
    IF InvertRejects(mem[a])
    THEN [status |-> MP_SINGULAR, mem |-> mem]
    ELSE CheckedMapping(
             InvertStoreYY(
                 InvertStoreY(
                     InvertStoreXX(InvertStoreX(mem, dst, a), dst, a),
                     dst, a),
                 dst, a),
             dst)
(***************************************************************************)
(* Specification SpecMapping: one call of a function of mappings.c on the  *)
(* objects of the memory obj: the boxes inp, out and bdst, the mappings A, *)
(* B, inv and dst.  A call of MpInvertMapping that stored the inverse of A *)
(* in inv may be followed by MpComposeMappings(dst, inv, A).               *)
(***************************************************************************)
\* The limits of the input box range over 0..MaxLimit and two specials.
MaxLimit == 2

\* The coefficients of the mapping A range over -1..MaxCoef and two
\* specials.
MaxCoef == 2

BoxLimits == {Num(k) : k \in 0..MaxLimit} \cup {PInf, NaN}

InputBoxes ==
    {Box(a, b, c, d) : a \in BoxLimits, b \in BoxLimits,
                       c \in BoxLimits, d \in BoxLimits}

OutputBoxes ==
    {Box(Num(0), Num(1), Num(0), Num(1)),
     Box(Num(1), Num(3), Num(-1), Num(2)),
     Box(Num(2), Num(-2), Num(0), Num(5)),
     Box(Num(0), PInf, Num(0), Num(1)),
     Box(Num(0), Num(1), NaN, Num(1))}

Coefs == {Num(k) : k \in -1..MaxCoef} \cup {PInf, NaN}

LeftMappings ==
    {Mapping(a, b, c, d) : a \in Coefs, b \in Coefs, c \in Coefs, d \in Coefs}

RightMappings ==
    {Mapping(Num(2), Num(1), Num(-1), Num(3)),
     Mapping(Rat(1, 2), Num(0), Num(3), Num(-2)),
     Mapping(Num(1), PInf, Num(1), Num(1))}

\* The memory: the objects the caller initialised, the others unset.
Memory(inp, out, A, B) ==
    [n \in {"inp", "out", "bdst", "A", "B", "inv", "dst"} |->
        CASE n = "inp" -> inp
          [] n = "out" -> out
          [] n = "bdst" -> UnsetBox
          [] n = "A" -> A
          [] n = "B" -> B
          [] n = "inv" -> UnsetMapping
          [] n = "dst" -> UnsetMapping]

InitMapping ==
    /\ pc = "call"
    /\ res = NoResult
    /\ box = UnsetBox
    /\ xs = <<>>
    /\ ys = <<>>
    /\ \/ \E inp \in InputBoxes : \E out \in OutputBoxes :
             obj = Memory(inp, out, UnsetMapping, UnsetMapping)
       \/ \E A \in LeftMappings : \E B \in RightMappings :
             obj = Memory(UnsetBox, UnsetBox, A, B)

\* The state after a call that returned r = [status, mem]: res keeps the
\* status, the names of the operands and the memory before the call.
Called(name, r, dst, a, b) ==
    /\ pc' = name
    /\ obj' = r.mem
    /\ res' = [status |-> r.status, dst |-> dst, a |-> a, b |-> b, pre |-> obj]
    /\ UNCHANGED <<box, xs, ys>>

\* A call of MpReorderBoxLimits on the box inp, out of place or in place.
ReorderBoxLimitsCall ==
    /\ pc = "call"
    /\ obj["inp"] # UnsetBox
    /\ \E d \in {"bdst", "inp"} :
          Called("MpReorderBoxLimits", MpReorderBoxLimits(obj, d, "inp"),
                 d, "inp", "inp")

\* A call of MpDefineMapping(dst, inp, out, flip).
DefineMappingCall ==
    /\ pc = "call"
    /\ obj["inp"] # UnsetBox
    /\ pc' = "MpDefineMapping"
    /\ \E flip \in 0..3 :
          /\ obj' = MpDefineMapping(obj, "dst", "inp", "out", flip).mem
          /\ res' = [status |-> MpDefineMapping(obj, "dst", "inp", "out",
                                                flip).status,
                     dst |-> "dst", a |-> "inp", b |-> "out", pre |-> obj,
                     flip |-> flip]
    /\ UNCHANGED <<box, xs, ys>>

\* A call of MpComposeMappings(dst, A, B) or MpComposeMappings(A, A, B).
ComposeMappingsCall ==
    /\ pc = "call"
    /\ obj["A"] # UnsetMapping
    /\ \E d \in {"dst", "A"} :
          Called("MpComposeMappings", MpComposeMappings(obj, d, "A", "B"),
                 d, "A", "B")

\* A call of MpInvertMapping(inv, A) or MpInvertMapping(A, A).
InvertMappingCall ==
    /\ pc = "call"
    /\ obj["A"] # UnsetMapping
    /\ \E d \in {"inv", "A"} :
          Called("MpInvertMapping", MpInvertMapping(obj, d, "A"), d, "A", "A")

\* MpComposeMappings(dst, inv, A) after MpInvertMapping(inv, A) returned
\* MP_OK.
ComposeWithInverseCall ==
    /\ pc = "MpInvertMapping"
    /\ res.dst = "inv"
    /\ res.status = MP_OK
    /\ Called("MpComposeMappings", MpComposeMappings(obj, "dst", "inv", "A"),
              "dst", "inv", "A")

NextMapping ==
    \/ ReorderBoxLimitsCall
    \/ DefineMappingCall
    \/ ComposeMappingsCall
    \/ InvertMappingCall
    \/ ComposeWithInverseCall

SpecMapping == InitMapping /\ [][NextMapping]_vars

(***************************************************************************)
(* Properties of boxes and simple mappings.                                *)
(***************************************************************************)
\* The box is ordered and not degenerate.
ProperOrdered(b) == Lt(b.xmin, b.xmax) /\ Lt(b.ymin, b.ymax)

\* The mapping M sends the limits of the box a to the same limits of b.
MapsCorners(M, a, b) ==
    /\ ApplyMappingX(M, a.xmin) = b.xmin
    /\ ApplyMappingX(M, a.xmax) = b.xmax
    /\ ApplyMappingY(M, a.ymin) = b.ymin
    /\ ApplyMappingY(M, a.ymax) = b.ymax

ZeroExtent(b) ==
    Eq(Sub(b.xmax, b.xmin), Num(0)) \/ Eq(Sub(b.ymax, b.ymin), Num(0))

\* The four coefficients of the mapping are finite numbers.
FiniteCoefs(A) == IsFin(A.xx) /\ IsFin(A.x) /\ IsFin(A.yy) /\ IsFin(A.y)

\* C14: MpDefineMapping returns MP_SINGULAR without writing dst when the
\* input box has exactly zero width or zero height; otherwise it returns
\* MP_OK if the four coefficients it stored are finite and MP_SINGULAR if
\* one of them is not.
C14_DefineMappingSingular ==
    pc = "MpDefineMapping"
    => IF ZeroExtent(res.pre["inp"])
       THEN res.status = MP_SINGULAR /\ obj["dst"] = res.pre["dst"]
       ELSE IF FiniteCoefs(obj["dst"])
       THEN res.status = MP_OK
       ELSE res.status = MP_SINGULAR

\* C14 witness: an input box of zero width and non-zero height, with finite
\* limits, has been refused and dst is still unwritten.
C14_Witness ==
    /\ pc = "MpDefineMapping"
    /\ res.pre["inp"] = Box(Num(1), Num(1), Num(0), Num(2))
    /\ res.pre["out"] = Box(Num(1), Num(3), Num(-1), Num(2))
    /\ res.status = MP_SINGULAR
    /\ obj["dst"] = UnsetMapping

\* C14, second case: a box that is not degenerate has given a coefficient
\* that is not finite, and the call returned MP_SINGULAR after storing it.
C14_NotFiniteWitness ==
    /\ pc = "MpDefineMapping"
    /\ ~ZeroExtent(res.pre["inp"])
    /\ FiniteCoefs(Mapping(res.pre["inp"].xmin, res.pre["inp"].xmax,
                           res.pre["inp"].ymin, res.pre["inp"].ymax))
    /\ obj["dst"].xx = PInf
    /\ res.status = MP_SINGULAR

\* The identity simple mapping {xx=1, x=0, yy=1, y=0}.
IdentityMapping == Mapping(Num(1), Num(0), Num(1), Num(0))

\* The coefficients of M are finite with xx != 0 and yy != 0.
Invertible(M) == FiniteCoefs(M) /\ ~IsZero(M.xx) /\ ~IsZero(M.yy)

C16_InPlaceSameAsDistinct ==
    /\ (/\ pc = "MpComposeMappings"
        /\ res.dst = "A")
       => (/\ obj["A"] = MpComposeMappings(res.pre, "dst", "A", "B").mem["dst"]
           /\ res.status = MpComposeMappings(res.pre, "dst", "A", "B").status)
    /\ (/\ pc = "MpInvertMapping"
        /\ res.dst = "A")
       => (/\ res.status = MpInvertMapping(res.pre, "inv", "A").status
           /\ IF InvertRejects(res.pre["A"])
              THEN obj["A"] = res.pre["A"]
              ELSE obj["A"] = MpInvertMapping(res.pre, "inv", "A").mem["inv"])

\* C16 witness: {2, 1, -1, 2} has been composed in place with {2, 1, -1, 3},
\* giving {4, 3, 1, -1}: the scale stored in A differs from the one read to
\* compute the translation.
C16_Witness ==
    /\ pc = "MpComposeMappings"
    /\ res.dst = "A"
    /\ res.pre["A"] = Mapping(Num(2), Num(1), Num(-1), Num(2))
    /\ res.pre["B"] = Mapping(Num(2), Num(1), Num(-1), Num(3))
    /\ obj["A"] = Mapping(Num(4), Num(3), Num(1), Num(-1))
    /\ res.status = MP_OK

\* C16, inversion: {2, 1, -1, 2} has been inverted in place.
C16_InvertWitness ==
    /\ pc = "MpInvertMapping"
    /\ res.dst = "A"
    /\ res.pre["A"] = Mapping(Num(2), Num(1), Num(-1), Num(2))
    /\ obj["A"] = Mapping(Rat(1, 2), Rat(-1, 2), Num(-1), Num(2))
    /\ res.status = MP_OK

\* The four limits of the box are finite numbers.
FiniteBox(b) ==
    IsFin(b.xmin) /\ IsFin(b.xmax) /\ IsFin(b.ymin) /\ IsFin(b.ymax)

MinOf(a, b) == IF Lt(b, a) THEN b ELSE a

MaxOf(a, b) == IF Lt(a, b) THEN b ELSE a

\* The box d holds the limits of the box s in order.
OrderedCopy(d, s) ==
    /\ d.xmin = MinOf(s.xmin, s.xmax)
    /\ d.xmax = MaxOf(s.xmin, s.xmax)
    /\ d.ymin = MinOf(s.ymin, s.ymax)
    /\ d.ymax = MaxOf(s.ymin, s.ymax)

\* C17: MpReorderBoxLimits(dst, src) returns the failure status of the check
\* of src and leaves dst unchanged when a limit of src is not finite;
\* otherwise it returns MP_OK and dst holds the limits of src in order on
\* each axis, whether dst is src itself or another box.
C17_ReorderBoxLimits ==
    pc = "MpReorderBoxLimits"
    => IF FiniteBox(res.pre["inp"])
       THEN /\ res.status = MP_OK
            /\ OrderedCopy(obj[res.dst], res.pre["inp"])
            /\ IsOrdered(obj[res.dst])
       ELSE /\ res.status = MP_SINGULAR
            /\ obj[res.dst] = res.pre[res.dst]

\* C17 witness: the box {2,0,1,0}, unordered on both axes, has been copied
\* in order into another box.
C17_Witness ==
    /\ pc = "MpReorderBoxLimits"
    /\ res.dst = "bdst"
    /\ res.pre["inp"] = Box(Num(2), Num(0), Num(1), Num(0))
    /\ obj["bdst"] = Box(Num(0), Num(2), Num(0), Num(1))
    /\ obj["inp"] = res.pre["inp"]
    /\ res.status = MP_OK

\* C17, in place: the box {2,0,0,1}, unordered in x, has been reordered.
C17_InPlaceWitness ==
    /\ pc = "MpReorderBoxLimits"
    /\ res.dst = "inp"
    /\ res.pre["inp"] = Box(Num(2), Num(0), Num(0), Num(1))
    /\ obj["inp"] = Box(Num(0), Num(2), Num(0), Num(1))
    /\ res.status = MP_OK

\* C17, failure: a box with a limit that is not finite has been refused and
\* the destination is still unwritten.
C17_FailureWitness ==
    /\ pc = "MpReorderBoxLimits"
    /\ res.dst = "bdst"
    /\ res.pre["inp"].xmax = PInf
    /\ obj["bdst"] = UnsetBox
    /\ res.status = MP_SINGULAR

(***************************************************************************)
(* Affine transforms (src/src/muPlotXForms.h, src/src/muXForms.c).  As for *)
(* the simple mappings, the functions receive their operands by address    *)
(* and the stores are applied to the memory in the order of the macros.    *)
(***************************************************************************)
Affine(xx, xy, x, yx, yy, y) ==
    [xx |-> xx, xy |-> xy, x |-> x, yx |-> yx, yy |-> yy, y |-> y]

\* An affine transform no code has written yet.
UnsetAffine == Affine(Unset, Unset, Unset, Unset, Unset, Unset)

\* MP_XFORM_APPLY_X and MP_XFORM_APPLY_Y.
MP_XFORM_APPLY_X(A, X, Y) == Add(Add(Mul(A.xx, X), Mul(A.xy, Y)), A.x)

MP_XFORM_APPLY_Y(A, X, Y) == Add(Add(Mul(A.yx, X), Mul(A.yy, Y)), A.y)

\* The components of the composition of A and B.
MP_XFORM_COMPOSE_XX(A, B) == Add(Mul(A.xx, B.xx), Mul(A.xy, B.yx))

MP_XFORM_COMPOSE_XY(A, B) == Add(Mul(A.xx, B.xy), Mul(A.xy, B.yy))

MP_XFORM_COMPOSE_X(A, B) == Add(Add(Mul(A.xx, B.x), Mul(A.xy, B.y)), A.x)

MP_XFORM_COMPOSE_YX(A, B) == Add(Mul(A.yx, B.xx), Mul(A.yy, B.yx))

MP_XFORM_COMPOSE_YY(A, B) == Add(Mul(A.yx, B.xy), Mul(A.yy, B.yy))

MP_XFORM_COMPOSE_Y(A, B) == Add(Add(Mul(A.yx, B.x), Mul(A.yy, B.y)), A.y)

\* MP_XFORM_COMPOSE, its six stores.
AffineComposeXX(mem, dst, a, b) ==
    [mem EXCEPT ![dst].xx = MP_XFORM_COMPOSE_XX(mem[a], mem[b])]

AffineComposeXY(mem, dst, a, b) ==
    [mem EXCEPT ![dst].xy = MP_XFORM_COMPOSE_XY(mem[a], mem[b])]

AffineComposeX(mem, dst, a, b) ==
    [mem EXCEPT ![dst].x = MP_XFORM_COMPOSE_X(mem[a], mem[b])]

AffineComposeYX(mem, dst, a, b) ==
    [mem EXCEPT ![dst].yx = MP_XFORM_COMPOSE_YX(mem[a], mem[b])]

\* The store E(DST,yy) = MP_XFORM_COMPOSE_YX(E,A,B).
AffineComposeYY(mem, dst, a, b) ==
    [mem EXCEPT ![dst].yy = MP_XFORM_COMPOSE_YX(mem[a], mem[b])]

AffineComposeY(mem, dst, a, b) ==
    [mem EXCEPT ![dst].y = MP_XFORM_COMPOSE_Y(mem[a], mem[b])]

\* MP_XFORM_COMPOSE.
MP_XFORM_COMPOSE(mem, dst, a, b) ==
    AffineComposeY(
        AffineComposeYY(
            AffineComposeYX(
                AffineComposeX(
                    AffineComposeXY(AffineComposeXX(mem, dst, a, b), dst, a, b),
                    dst, a, b),
                dst, a, b),
            dst, a, b),
        dst, a, b)

\* MpComposeAffineTransforms.
MpComposeAffineTransforms(mem, dst, a, b) ==
    [status |-> MP_OK, mem |-> MP_XFORM_COMPOSE(mem, dst, a, b)]

\* MpComposeAffineTransformsAlt: the operands are passed by value and the
\* destination is a local object, which is returned.
MpComposeAffineTransformsAlt(A, B) ==
    MP_XFORM_COMPOSE([n \in {"dst", "A", "B"} |->
                         CASE n = "dst" -> UnsetAffine
                           [] n = "A" -> A
                           [] n = "B" -> B],
                     "dst", "A", "B")["dst"]

\* MP_XFORM_DETERMINANT.
MP_XFORM_DETERMINANT(A) == Sub(Mul(A.xx, A.yy), Mul(A.xy, A.yx))

\* MP_XFORM_INVERSE, the stores in the order of the macro, once the locals
\* _Rxx, _Rxy, _Ryx and _Ryy are computed.
AffineInverseTop(mem, dst, Rxx, Rxy) ==
    [mem EXCEPT ![dst].xx = Rxx, ![dst].xy = Rxy]

AffineInverseX(mem, dst, a, Rxx, Rxy) ==
    [mem EXCEPT ![dst].x = Neg(Add(Mul(Rxy, mem[a].y), Mul(Rxx, mem[a].x)))]

AffineInverseBottom(mem, dst, Ryx, Ryy) ==
    [mem EXCEPT ![dst].yx = Ryx, ![dst].yy = Ryy]

AffineInverseY(mem, dst, a, Ryx, Ryy) ==
    [mem EXCEPT ![dst].y = Neg(Add(Mul(Ryx, mem[a].x), Mul(Ryy, mem[a].y)))]

AffineInverseStores(mem, dst, a, Rxx, Rxy, Ryx, Ryy) ==
    AffineInverseY(
        AffineInverseBottom(
            AffineInverseX(AffineInverseTop(mem, dst, Rxx, Rxy),
                           dst, a, Rxx, Rxy),
            dst, Ryx, Ryy),
        dst, a, Ryx, Ryy)

\* MP_XFORM_INVERSE once _alpha = 1/_delta is computed.
AffineInverseScaled(mem, dst, a, alpha) ==
    AffineInverseStores(mem, dst, a,
                        Mul(alpha, mem[a].yy), Mul(Neg(alpha), mem[a].xy),
                        Mul(Neg(alpha), mem[a].yx), Mul(alpha, mem[a].xx))

\* MpInverseAffineTransform without the test of the determinant.
InverseUnguarded(mem, dst, a, delta) ==
    [status |-> MP_OK,
     mem |-> AffineInverseScaled(mem, dst, a, Div(Num(1), delta))]

\* MpInverseAffineTransform once _delta is computed: MP_XFORM_INVERSE
\* returns MP_SINGULAR when _delta == 0, else the function returns MP_OK.
InverseWithDeterminant(mem, dst, a, delta) ==
    IF Eq(delta, Num(0))
    THEN [status |-> MP_SINGULAR, mem |-> mem]
    ELSE [status |-> MP_OK,
          mem |-> AffineInverseScaled(mem, dst, a, Div(Num(1), delta))]

\* MpInverseAffineTransform.
MpInverseAffineTransform(mem, dst, a) ==
    InverseWithDeterminant(mem, dst, a, MP_XFORM_DETERMINANT(mem[a]))

\* MP_XFORM_LEFT_DIVIDE, the stores in the order of the macro, once the
\* locals T = [xx, xy, yx, yy, x, y] are computed.
LeftDivideXX(mem, dst, b, T) ==
    [mem EXCEPT ![dst].xx = Sub(Mul(T.xx, mem[b].xx), Mul(T.xy, mem[b].yx))]

LeftDivideXY(mem, dst, b, T) ==
    [mem EXCEPT ![dst].xy = Sub(Mul(T.xx, mem[b].xy), Mul(T.xy, mem[b].yy))]

LeftDivideX(mem, dst, b, T) ==
    [mem EXCEPT ![dst].x = Sub(Mul(T.xx, T.x), Mul(T.xy, T.y))]

LeftDivideYX(mem, dst, b, T) ==
    [mem EXCEPT ![dst].yx = Sub(Mul(T.yy, mem[b].yx), Mul(T.yx, mem[b].xx))]

LeftDivideYY(mem, dst, b, T) ==
    [mem EXCEPT ![dst].yy = Sub(Mul(T.yy, mem[b].yy), Mul(T.yx, mem[b].xy))]

LeftDivideY(mem, dst, b, T) ==
    [mem EXCEPT ![dst].y = Sub(Mul(T.yy, T.y), Mul(T.yx, T.x))]

LeftDivideStores(mem, dst, b, T) ==
    LeftDivideY(
        LeftDivideYY(
            LeftDivideYX(
                LeftDivideX(
                    LeftDivideXY(LeftDivideXX(mem, dst, b, T), dst, b, T),
                    dst, b, T),
                dst, b, T),
            dst, b, T),
        dst, b, T)

\* The locals _Txx, _Txy, _Tyx, _Tyy, _Tx and _Ty of MP_XFORM_LEFT_DIVIDE.
LeftDivideLocals(A, B, alpha) ==
    Affine(Mul(alpha, A.yy), Mul(alpha, A.xy), Sub(B.x, A.x),
           Mul(alpha, A.yx), Mul(alpha, A.xx), Sub(B.y, A.y))

\* MpLeftDivideAffineTransforms once _delta is computed.
LeftDivideWithDeterminant(mem, dst, a, b, delta) ==
    IF Eq(delta, Num(0))
    THEN [status |-> MP_SINGULAR, mem |-> mem]
    ELSE [status |-> MP_OK,
          mem |-> LeftDivideStores(mem, dst, b,
                      LeftDivideLocals(mem[a], mem[b], Div(Num(1), delta)))]

\* MpLeftDivideAffineTransforms.
MpLeftDivideAffineTransforms(mem, dst, a, b) ==
    LeftDivideWithDeterminant(mem, dst, a, b, MP_XFORM_DETERMINANT(mem[a]))

\* MP_XFORM_INTERCEPT, the two stores, xptr and yptr being the names of the
\* objects that receive the coordinates.
InterceptStoreX(mem, xptr, a, alpha) ==
    [mem EXCEPT ![xptr] = Mul(alpha, Sub(Mul(mem[a].xy, mem[a].y),
                                         Mul(mem[a].yy, mem[a].x)))]

InterceptStoreY(mem, yptr, a, alpha) ==
    [mem EXCEPT ![yptr] = Mul(alpha, Sub(Mul(mem[a].yx, mem[a].x),
                                         Mul(mem[a].xx, mem[a].y)))]

\* MpInterceptAffineTransform once _delta is computed.
InterceptWithDeterminant(mem, xptr, yptr, a, delta) ==
    IF Eq(delta, Num(0))
    THEN [status |-> MP_SINGULAR, mem |-> mem]
    ELSE [status |-> MP_OK,
          mem |-> InterceptStoreY(
                      InterceptStoreX(mem, xptr, a, Div(Num(1), delta)),
                      yptr, a, Div(Num(1), delta))]

\* MpInterceptAffineTransform.
MpInterceptAffineTransform(mem, xptr, yptr, a) ==
    InterceptWithDeterminant(mem, xptr, yptr, a,
                             MP_XFORM_DETERMINANT(mem[a]))
(***************************************************************************)
(* Scaling, translating and rotating an affine transform.  Each macro      *)
(* stores the six coefficients of DST in the order xx, xy, x, yx, yy, y,   *)
(* each value being read from the operand when its store is reached.       *)
(***************************************************************************)
\* One store E(DST,f) = V(mem, f), the value being computed from the memory
\* as it is when the store is reached.
StoreCoefficient(mem, dst, f, V(_, _)) == [mem EXCEPT ![dst][f] = V(mem, f)]

\* The six stores of a macro, in the order of the source.
StoreCoefficients(mem, dst, V(_, _)) ==
    StoreCoefficient(
        StoreCoefficient(
            StoreCoefficient(
                StoreCoefficient(
                    StoreCoefficient(
                        StoreCoefficient(mem, dst, "xx", V),
                        dst, "xy", V),
                    dst, "x", V),
                dst, "yx", V),
            dst, "yy", V),
        dst, "y", V)

\* MP_XFORM_LEFT_SCALE with the xy coefficient computed from E(A,xx).
LeftScaleFromXX(A, alpha, f) ==
    Mul(alpha, IF f = "xy" THEN A.xx ELSE A[f])

\* MP_XFORM_LEFT_SCALE_XX .. MP_XFORM_LEFT_SCALE_Y.
MP_XFORM_LEFT_SCALE(A, alpha, f) == Mul(alpha, A[f])

\* MP_XFORM_RIGHT_SCALE_XX .. MP_XFORM_RIGHT_SCALE_Y.
MP_XFORM_RIGHT_SCALE(A, alpha, f) ==
    IF f \in {"x", "y"} THEN A[f] ELSE Mul(alpha, A[f])

\* MP_XFORM_LEFT_TRANSLATE_XX .. MP_XFORM_LEFT_TRANSLATE_Y.
MP_XFORM_LEFT_TRANSLATE(A, X, Y, f) ==
    CASE f = "x" -> Add(A.x, X)
      [] f = "y" -> Add(A.y, Y)
      [] OTHER -> A[f]

\* MP_XFORM_LEFT_ROTATE_XX .. MP_XFORM_LEFT_ROTATE_Y.
MP_XFORM_LEFT_ROTATE(A, SN, CS, f) ==
    CASE f = "xx" -> Sub(Mul(CS, A.xx), Mul(SN, A.yx))
      [] f = "xy" -> Sub(Mul(CS, A.xy), Mul(SN, A.yy))
      [] f = "x" -> Sub(Mul(CS, A.x), Mul(SN, A.y))
      [] f = "yx" -> Add(Mul(CS, A.yx), Mul(SN, A.xx))
      [] f = "yy" -> Add(Mul(CS, A.yy), Mul(SN, A.xy))
      [] f = "y" -> Add(Mul(CS, A.y), Mul(SN, A.x))

\* MP_XFORM_RIGHT_ROTATE_XX .. MP_XFORM_RIGHT_ROTATE_Y.
MP_XFORM_RIGHT_ROTATE(A, SN, CS, f) ==
    CASE f = "xx" -> Add(Mul(CS, A.xx), Mul(SN, A.xy))
      [] f = "xy" -> Sub(Mul(CS, A.xy), Mul(SN, A.xx))
      [] f = "x" -> A.x
      [] f = "yx" -> Add(Mul(CS, A.yx), Mul(SN, A.yy))
      [] f = "yy" -> Sub(Mul(CS, A.yy), Mul(SN, A.yx))
      [] f = "y" -> A.y

\* MpLeftScaleAffineTransform(dst, alpha, A).
MpLeftScaleAffineTransform(mem, dst, alpha, a) ==
    [status |-> MP_OK,
     mem |-> StoreCoefficients(mem, dst,
                 LAMBDA m, f : MP_XFORM_LEFT_SCALE(m[a], alpha, f))]

\* MpRightScaleAffineTransform(dst, A, alpha).
MpRightScaleAffineTransform(mem, dst, a, alpha) ==
    [status |-> MP_OK,
     mem |-> StoreCoefficients(mem, dst,
                 LAMBDA m, f : MP_XFORM_RIGHT_SCALE(m[a], alpha, f))]

\* MpLeftTranslateAffineTransform(dst, x, y, A).
MpLeftTranslateAffineTransform(mem, dst, x, y, a) ==
    [status |-> MP_OK,
     mem |-> StoreCoefficients(mem, dst,
                 LAMBDA m, f : MP_XFORM_LEFT_TRANSLATE(m[a], x, y, f))]

\* MpRightTranslateAffineTransform(dst, A, x, y): its body expands
\* MP_XFORM_LEFT_TRANSLATE.
MpRightTranslateAffineTransform(mem, dst, a, x, y) ==
    [status |-> MP_OK,
     mem |-> StoreCoefficients(mem, dst,
                 LAMBDA m, f : MP_XFORM_LEFT_TRANSLATE(m[a], x, y, f))]

\* MpLeftRotateAffineTransform(dst, theta, A), sn and cs being the sine and
\* the cosine the library returns for theta.
MpLeftRotateAffineTransform(mem, dst, sn, cs, a) ==
    [status |-> MP_OK,
     mem |-> StoreCoefficients(mem, dst,
                 LAMBDA m, f : MP_XFORM_LEFT_ROTATE(m[a], sn, cs, f))]

\* MpRightRotateAffineTransform(dst, A, theta).
MpRightRotateAffineTransform(mem, dst, a, sn, cs) ==
    [status |-> MP_OK,
     mem |-> StoreCoefficients(mem, dst,
                 LAMBDA m, f : MP_XFORM_RIGHT_ROTATE(m[a], sn, cs, f))]
\* The locals _Rxx, _Rxy, _Ryx and _Ryy of MP_XFORM_RIGHT_DIVIDE.
RightDivideLocals(A, B, alpha) ==
    [xx |-> Mul(alpha, Sub(Mul(A.xx, B.yy), Mul(A.xy, B.yx))),
     xy |-> Mul(alpha, Sub(Mul(A.xy, B.xx), Mul(A.xx, B.xy))),
     yx |-> Mul(alpha, Sub(Mul(A.yx, B.yy), Mul(A.yy, B.yx))),
     yy |-> Mul(alpha, Sub(Mul(A.yy, B.xx), Mul(A.yx, B.xy)))]

\* MP_XFORM_RIGHT_DIVIDE, the value stored in the coefficient f of DST:
\* E(DST,y) = E(A,y) - (_Ryx*E(B,y) + _Ryy*E(B,y)).
RightDivideValue(A, B, R, f) ==
    CASE f = "x" -> Sub(A.x, Add(Mul(R.xx, B.x), Mul(R.xy, B.y)))
      [] f = "y" -> Sub(A.y, Add(Mul(R.yx, B.y), Mul(R.yy, B.y)))
      [] OTHER -> R[f]

\* MpRightDivideAffineTransforms once _delta is computed.
RightDivideWithDeterminant(mem, dst, a, b, delta) ==
    IF Eq(delta, Num(0))
    THEN [status |-> MP_SINGULAR, mem |-> mem]
    ELSE [status |-> MP_OK,
          mem |-> StoreCoefficients(mem, dst,
                      LAMBDA m, f :
                          RightDivideValue(m[a], m[b],
                              RightDivideLocals(mem[a], mem[b],
                                                Div(Num(1), delta)), f))]

\* MpRightDivideAffineTransforms: _delta = MP_XFORM_DETERMINANT(E,A).
MpRightDivideAffineTransforms(mem, dst, a, b) ==
    RightDivideWithDeterminant(mem, dst, a, b, MP_XFORM_DETERMINANT(mem[a]))

(***************************************************************************)
(* Specification SpecXForm: one call of a function of muXForms.c on the    *)
(* objects of the memory obj: the affine transforms A, B and dst and the   *)
(* coordinates X and Y.                                                    *)
(***************************************************************************)
\* The coefficients of the linear part of A range over -1..MaxEntry.
MaxEntry == 2

Entries == {Num(k) : k \in -1..MaxEntry}

IdentityTransform == Affine(Num(1), Num(0), Num(0), Num(0), Num(1), Num(0))

\* The transform {xx=2, xy=0, x=1, yx=0, yy=2, y=1} of the documented
\* scenario.
ScenarioTransform == Affine(Num(2), Num(0), Num(1), Num(0), Num(2), Num(1))

LeftTransforms ==
    {Affine(a, b, x, c, d, y) : a \in Entries, b \in Entries,
                                c \in Entries, d \in Entries,
                                x \in {Num(0), Num(1)}, y \in {Num(0), Num(1)}}

RightTransforms ==
    {IdentityTransform,
     ScenarioTransform,
     Affine(Num(1), Num(2), Num(-1), Num(3), Num(-1), Num(2)),
     Affine(PInf, Num(0), Num(0), Num(1), Num(1), NaN)}

InitXForm ==
    /\ pc = "call"
    /\ res = NoResult
    /\ box = UnsetBox
    /\ xs = <<>>
    /\ ys = <<>>
    /\ \E A \in LeftTransforms : \E B \in RightTransforms :
          obj = [n \in {"A", "B", "dst", "X", "Y"} |->
                    CASE n = "A" -> A
                      [] n = "B" -> B
                      [] n = "dst" -> UnsetAffine
                      [] n = "X" -> Unset
                      [] n = "Y" -> Unset]

\* A call of MpComposeAffineTransforms(dst, A, B) or (dst, A, A).
ComposeAffineTransformsCall ==
    /\ pc = "call"
    /\ \E b \in {"A", "B"} :
          Called("MpComposeAffineTransforms",
                 MpComposeAffineTransforms(obj, "dst", "A", b), "dst", "A", b)

\* A call of MpComposeAffineTransformsAlt(A, B): res keeps the transform
\* returned.
ComposeAffineTransformsAltCall ==
    /\ pc = "call"
    /\ pc' = "MpComposeAffineTransformsAlt"
    /\ res' = [value |-> MpComposeAffineTransformsAlt(obj["A"], obj["B"]),
               a |-> "A", b |-> "B", pre |-> obj]
    /\ UNCHANGED <<box, xs, ys, obj>>

\* A call of MpInverseAffineTransform(dst, A).
InverseAffineTransformCall ==
    /\ pc = "call"
    /\ Called("MpInverseAffineTransform",
              MpInverseAffineTransform(obj, "dst", "A"), "dst", "A", "A")

\* A call of MpLeftDivideAffineTransforms(dst, A, B).
LeftDivideAffineTransformsCall ==
    /\ pc = "call"
    /\ Called("MpLeftDivideAffineTransforms",
              MpLeftDivideAffineTransforms(obj, "dst", "A", "B"),
              "dst", "A", "B")

\* A call of MpInterceptAffineTransform(&X, &Y, A).
InterceptAffineTransformCall ==
    /\ pc = "call"
    /\ Called("MpInterceptAffineTransform",
              MpInterceptAffineTransform(obj, "X", "Y", "A"), "X", "A", "A")

\* The multipliers of the scaling calls.
Multipliers == {Num(-1), Num(0), Num(2), Rat(1, 2)}

\* The vectors of the translation calls.
Vectors == {<<Num(0), Num(0)>>, <<Num(1), Num(0)>>, <<Num(-1), Num(2)>>}

\* The pairs <<sin(theta), cos(theta)>> of the rotation calls: the quarter
\* turns and an angle whose sine and cosine are both non-zero.
Angles ==
    {<<Num(0), Num(1)>>, <<Num(1), Num(0)>>, <<Num(0), Num(-1)>>,
     <<Num(-1), Num(0)>>, <<Rat(3, 5), Rat(4, 5)>>}

\* The state after a call with the scalar arguments s and t that returned
\* r = [status, mem].
CalledWith(name, r, dst, a, s, t) ==
    /\ pc' = name
    /\ obj' = r.mem
    /\ res' = [status |-> r.status, dst |-> dst, a |-> a, b |-> a,
               pre |-> obj, s |-> s, t |-> t]
    /\ UNCHANGED <<box, xs, ys>>

\* A call of MpLeftScaleAffineTransform or MpRightScaleAffineTransform on
\* A, to a distinct destination or in place.
ScaleAffineTransformCall ==
    /\ pc = "call"
    /\ obj["B"] = IdentityTransform
    /\ \E d \in {"dst", "A"} : \E alpha \in Multipliers :
          \/ CalledWith("MpLeftScaleAffineTransform",
                 MpLeftScaleAffineTransform(obj, d, alpha, "A"),
                 d, "A", alpha, alpha)
          \/ CalledWith("MpRightScaleAffineTransform",
                 MpRightScaleAffineTransform(obj, d, "A", alpha),
                 d, "A", alpha, alpha)

\* A call of MpLeftTranslateAffineTransform or
\* MpRightTranslateAffineTransform on A.
TranslateAffineTransformCall ==
    /\ pc = "call"
    /\ obj["B"] = IdentityTransform
    /\ \E d \in {"dst", "A"} : \E v \in Vectors :
          \/ CalledWith("MpLeftTranslateAffineTransform",
                 MpLeftTranslateAffineTransform(obj, d, v[1], v[2], "A"),
                 d, "A", v[1], v[2])
          \/ CalledWith("MpRightTranslateAffineTransform",
                 MpRightTranslateAffineTransform(obj, d, "A", v[1], v[2]),
                 d, "A", v[1], v[2])

\* A call of MpLeftRotateAffineTransform or MpRightRotateAffineTransform
\* on A.
RotateAffineTransformCall ==
    /\ pc = "call"
    /\ obj["B"] = IdentityTransform
    /\ \E d \in {"dst", "A"} : \E r \in Angles :
          \/ CalledWith("MpLeftRotateAffineTransform",
                 MpLeftRotateAffineTransform(obj, d, r[1], r[2], "A"),
                 d, "A", r[1], r[2])
          \/ CalledWith("MpRightRotateAffineTransform",
                 MpRightRotateAffineTransform(obj, d, "A", r[1], r[2]),
                 d, "A", r[1], r[2])

\* A call of MpRightDivideAffineTransforms(dst, A, B).
RightDivideAffineTransformsCall ==
    /\ pc = "call"
    /\ Called("MpRightDivideAffineTransforms",
              MpRightDivideAffineTransforms(obj, "dst", "A", "B"),
              "dst", "A", "B")

NextXForm ==
    \/ ComposeAffineTransformsCall
    \/ ComposeAffineTransformsAltCall
    \/ InverseAffineTransformCall
    \/ LeftDivideAffineTransformsCall
    \/ InterceptAffineTransformCall
    \/ ScaleAffineTransformCall
    \/ TranslateAffineTransformCall
    \/ RotateAffineTransformCall
    \/ RightDivideAffineTransformsCall

SpecXForm == InitXForm /\ [][NextXForm]_vars
(***************************************************************************)
(* Properties of the affine transforms.                                    *)
(***************************************************************************)
\* The points on which transforms are compared.
Probes == {<<Num(0), Num(0)>>, <<Num(1), Num(0)>>, <<Num(0), Num(1)>>}

\* The point p transformed by A.
Transformed(A, p) ==
    <<MP_XFORM_APPLY_X(A, p[1], p[2]), MP_XFORM_APPLY_Y(A, p[1], p[2])>>

\* The matrix product A.B of two affine transforms.
Product(A, B) ==
    Affine(Add(Mul(A.xx, B.xx), Mul(A.xy, B.yx)),
           Add(Mul(A.xx, B.xy), Mul(A.xy, B.yy)),
           Add(Add(Mul(A.xx, B.x), Mul(A.xy, B.y)), A.x),
           Add(Mul(A.yx, B.xx), Mul(A.yy, B.yx)),
           Add(Mul(A.yx, B.xy), Mul(A.yy, B.yy)),
           Add(Add(Mul(A.yx, B.x), Mul(A.yy, B.y)), A.y))

\* The transform C is the composition "apply B then A".
AppliesThen(C, A, B) ==
    /\ C = Product(A, B)
    /\ \A p \in Probes : Transformed(C, p) = Transformed(A, Transformed(B, p))

\* C18: for finite transforms A and B and a destination distinct from both,
\* MpComposeAffineTransforms(dst, A, B) leaves in dst, and
\* MpComposeAffineTransformsAlt(A, B) returns, the matrix product A.B: the
\* transform that applies B and then A.
C18_ComposeAppliesBThenA ==
    /\ (/\ pc = "MpComposeAffineTransforms"
        /\ FiniteCoefs(res.pre[res.b])
        /\ IsFin(res.pre[res.b].xy) /\ IsFin(res.pre[res.b].yx))
       => AppliesThen(obj["dst"], res.pre["A"], res.pre[res.b])
    /\ (/\ pc = "MpComposeAffineTransformsAlt"
        /\ FiniteCoefs(res.pre["B"])
        /\ IsFin(res.pre["B"].xy) /\ IsFin(res.pre["B"].yx))
       => AppliesThen(res.value, res.pre["A"], res.pre["B"])

\* C19: composing A = {2, 0, 1, 0, 2, 1} with the identity yields A, and
\* composing A with itself into a distinct destination yields
\* {4, 0, 3, 0, 4, 3}.
C19_ScenarioCompositions ==
    (/\ pc = "MpComposeAffineTransforms"
     /\ res.pre["A"] = ScenarioTransform)
    => /\ res.pre[res.b] = IdentityTransform
          => obj["dst"] = ScenarioTransform
       /\ res.pre[res.b] = ScenarioTransform
          => obj["dst"] = Affine(Num(4), Num(0), Num(3),
                                 Num(0), Num(4), Num(3))

\* The determinant A.xx*A.yy - A.xy*A.yx of the linear part of A.
Determinant(A) == Sub(Mul(A.xx, A.yy), Mul(A.xy, A.yx))

\* C20: MpInverseAffineTransform(dst, A), MpLeftDivideAffineTransforms(dst,
\* A, B) and MpInterceptAffineTransform(x, y, A) return MP_SINGULAR and
\* write nothing when the determinant of A is exactly zero, and return
\* MP_OK when it is not zero.
C20_SingularDeterminant ==
    pc \in {"MpInverseAffineTransform", "MpLeftDivideAffineTransforms",
            "MpInterceptAffineTransform"}
    => IF IsZero(Determinant(res.pre["A"]))
       THEN res.status = MP_SINGULAR /\ obj = res.pre
       ELSE res.status = MP_OK

\* C20 witness: the transform {1, 1, 0, 1, 1, 1}, whose coefficients are
\* not zero and whose determinant is, has been refused by
\* MpInverseAffineTransform and dst is still unwritten.
C20_Witness ==
    /\ pc = "MpInverseAffineTransform"
    /\ res.pre["A"] = Affine(Num(1), Num(1), Num(0), Num(1), Num(1), Num(1))
    /\ res.status = MP_SINGULAR
    /\ obj["dst"] = UnsetAffine

\* C20, left division: a transform whose determinant is zero has been
\* refused and dst is still unwritten.
C20_LeftDivideWitness ==
    /\ pc = "MpLeftDivideAffineTransforms"
    /\ res.pre["A"] = Affine(Num(2), Num(-1), Num(0), Num(2), Num(-1), Num(1))
    /\ res.status = MP_SINGULAR
    /\ obj["dst"] = UnsetAffine

\* C20, intercept: the transform {2, 0, 1, 0, 2, 1}, of determinant 4, has
\* the intercept (-1/2, -1/2).
C20_InterceptWitness ==
    /\ pc = "MpInterceptAffineTransform"
    /\ res.pre["A"] = ScenarioTransform
    /\ res.status = MP_OK
    /\ obj["X"] = Rat(-1, 2)
    /\ obj["Y"] = Rat(-1, 2)

(***************************************************************************)
(* Properties of scaling, translating and rotating.                        *)
(***************************************************************************)
\* The call recorded in res, made again from the same memory with the
\* distinct destination dst.
DistinctScale ==
    IF pc = "MpLeftScaleAffineTransform"
    THEN MpLeftScaleAffineTransform(res.pre, "dst", res.s, "A")
    ELSE MpRightScaleAffineTransform(res.pre, "dst", "A", res.s)

DistinctTranslate ==
    IF pc = "MpLeftTranslateAffineTransform"
    THEN MpLeftTranslateAffineTransform(res.pre, "dst", res.s, res.t, "A")
    ELSE MpRightTranslateAffineTransform(res.pre, "dst", "A", res.s, res.t)

\* C21: the left and right scaling and the left and right translation of an
\* affine transform called with dst being A leave in A the six coefficients
\* (and return the status) that the same call writes to a distinct dst.
C21_ScaleTranslateInPlace ==
    /\ (/\ pc \in {"MpLeftScaleAffineTransform", "MpRightScaleAffineTransform"}
        /\ res.dst = "A")
       => (/\ obj["A"] = DistinctScale.mem["dst"]
           /\ res.status = DistinctScale.status)
    /\ (/\ pc \in {"MpLeftTranslateAffineTransform",
                   "MpRightTranslateAffineTransform"}
        /\ res.dst = "A")
       => (/\ obj["A"] = DistinctTranslate.mem["dst"]
           /\ res.status = DistinctTranslate.status)

\* C21 witness: {2, 0, 1, 0, 2, 1} has been left-scaled by 2 in place,
\* giving {4, 0, 2, 0, 4, 2}.
C21_Witness ==
    /\ pc = "MpLeftScaleAffineTransform"
    /\ res.dst = "A"
    /\ res.s = Num(2)
    /\ res.pre["A"] = ScenarioTransform
    /\ obj["A"] = Affine(Num(4), Num(0), Num(2), Num(0), Num(4), Num(2))
    /\ res.status = MP_OK

\* C21, translation: {2, -1, 1, 1, 2, 0} has been left-translated by
\* (-1, 2) in place, giving {2, -1, 0, 1, 2, 2}.
C21_TranslateWitness ==
    /\ pc = "MpLeftTranslateAffineTransform"
    /\ res.dst = "A"
    /\ res.s = Num(-1) /\ res.t = Num(2)
    /\ res.pre["A"] = Affine(Num(2), Num(-1), Num(1), Num(1), Num(2), Num(0))
    /\ obj["A"] = Affine(Num(2), Num(-1), Num(0), Num(1), Num(2), Num(2))

DistinctRotate ==
    IF pc = "MpLeftRotateAffineTransform"
    THEN MpLeftRotateAffineTransform(res.pre, "dst", res.s, res.t, "A")
    ELSE MpRightRotateAffineTransform(res.pre, "dst", "A", res.s, res.t)

\* C22: MpLeftRotateAffineTransform and MpRightRotateAffineTransform called
\* with dst being A leave in A, for every A and every (sin, cos) pair, the
\* six coefficients that the same call writes to a distinct dst.
C22_RotateInPlace ==
    (/\ pc \in {"MpLeftRotateAffineTransform", "MpRightRotateAffineTransform"}
     /\ res.dst = "A")
    => obj["A"] = DistinctRotate.mem["dst"]

\* The transform that applies A to the point translated by (X, Y): the
\* linear part of A, and the image under A of (X, Y) as translation.
PreTranslated(A, X, Y) ==
    Affine(A.xx, A.xy, Add(Add(Mul(A.xx, X), Mul(A.xy, Y)), A.x),
           A.yx, A.yy, Add(Add(Mul(A.yx, X), Mul(A.yy, Y)), A.y))

\* The transform that applies A and then translates the result by (X, Y).
PostTranslated(A, X, Y) ==
    Affine(A.xx, A.xy, Add(A.x, X), A.yx, A.yy, Add(A.y, Y))

\* C23: MpRightTranslateAffineTransform(dst, A, x, y) pre-translates A:
\* dst applied to any point (u, v) is A applied to (u + x, v + y), that is
\* dst.x = A.xx*x + A.xy*y + A.x and dst.y = A.yx*x + A.yy*y + A.y with the
\* linear part unchanged; MpLeftTranslateAffineTransform post-translates
\* (dst.x = A.x + x, dst.y = A.y + y).
C23_RightTranslatePreTranslates ==
    /\ pc = "MpRightTranslateAffineTransform"
       => /\ obj[res.dst] = PreTranslated(res.pre["A"], res.s, res.t)
          /\ \A p \in Probes :
                Transformed(obj[res.dst], p)
                  = Transformed(res.pre["A"],
                                <<Add(p[1], res.s), Add(p[2], res.t)>>)
    /\ pc = "MpLeftTranslateAffineTransform"
       => obj[res.dst] = PostTranslated(res.pre["A"], res.s, res.t)

\* C24: MpRightDivideAffineTransforms(dst, A, B) solves X.B = A: when the
\* determinant of the divisor B is not zero it returns MP_OK and dst
\* composed with B (apply B, then dst) equals A on all six coefficients;
\* when the determinant of B is exactly zero it returns MP_SINGULAR.
C24_RightDivideSolves ==
    (/\ pc = "MpRightDivideAffineTransforms"
     /\ FiniteCoefs(res.pre["B"])
     /\ IsFin(res.pre["B"].xy) /\ IsFin(res.pre["B"].yx))
    => IF IsZero(Determinant(res.pre["B"]))
       THEN res.status = MP_SINGULAR
       ELSE /\ res.status = MP_OK
            /\ Product(obj["dst"], res.pre["B"]) = res.pre["A"]

(***************************************************************************)
(* The registry of graphic drivers and the devices (src/src/muPlot.c).     *)
(* A pointer is a sequence of length at most one: NULL is the empty        *)
(* sequence, <<s>> points to the C string s, <<f>> to the function named   *)
(* f and <<k>> to the k-th block of the heap.  The memory obj holds the    *)
(* static list firstDriver (a sequence of drivers, the first one at the    *)
(* head), the cells argc, argv and devptr of the caller and the heap of    *)
(* devices.                                                                *)
(***************************************************************************)
MP_BAD_ADDRESS == 2
MP_BAD_FILENAME == 5
MP_BAD_IDENTIFIER == 6
MP_BAD_METHOD == 7
MP_BAD_SETTINGS == 8
MP_NOT_FOUND == 10
MP_NOT_IMPLEMENTED == 11

NULL == <<>>

\* The test ident == NULL || ident[0] == '\0'.
NoIdentifier(ident) == ident = NULL \/ ident[1] = ""

\* A node of the chained list of drivers.
MpDriver(ident, open) == [ident |-> ident, open |-> open]

\* The positions of the list whose identifier compares equal to ident
\* (strcmp(drv->ident, ident) == 0).
Matches(list, ident) == {i \in 1..Len(list) : list[i].ident = ident[1]}

\* The first node the loops on the list find.
FirstMatch(list, ident) ==
    CHOOSE i \in Matches(list, ident) : \A j \in Matches(list, ident) : i <= j

\* MpInstallDriver with a new node that is not linked to the list.
InstallUnlinkedDriver(mem, ident, open, mallocOK) ==
    IF ~mallocOK
    THEN [status |-> MP_NO_MEMORY, mem |-> mem]
    ELSE [status |-> MP_OK,
          mem |-> [mem EXCEPT !.firstDriver = <<MpDriver(ident[1], open)>>]]

\* MpInstallDriver, the replacement of the method of an existing driver
\* and the insertion of a new node at the head of the list, malloc
\* succeeding or not.
InstallNewDriver(mem, ident, open, mallocOK) ==
    IF ~mallocOK
    THEN [status |-> MP_NO_MEMORY, mem |-> mem]
    ELSE [status |-> MP_OK,
          mem |-> [mem EXCEPT !.firstDriver =
                                  <<MpDriver(ident[1], open)>> \o @]]

\* MpInstallDriver without the search of an existing driver.
InstallWithoutSearch(mem, ident, open, mallocOK) ==
    IF NoIdentifier(ident) THEN [status |-> MP_BAD_IDENTIFIER, mem |-> mem]
    ELSE IF open = NULL THEN [status |-> MP_BAD_METHOD, mem |-> mem]
    ELSE InstallNewDriver(mem, ident, open, mallocOK)

\* MpInstallDriver.
MpInstallDriver(mem, ident, open, mallocOK) ==
    IF NoIdentifier(ident) THEN [status |-> MP_BAD_IDENTIFIER, mem |-> mem]
    ELSE IF open = NULL THEN [status |-> MP_BAD_METHOD, mem |-> mem]
    ELSE IF Matches(mem.firstDriver, ident) # {}
    THEN [status |-> MP_OK,
          mem |-> [mem EXCEPT
                     !.firstDriver[FirstMatch(mem.firstDriver, ident)].open
                         = open]]
    ELSE InstallNewDriver(mem, ident, open, mallocOK)

\* The list without its node at position i.
Unlinked(list, i) == SubSeq(list, 1, i - 1) \o SubSeq(list, i + 1, Len(list))

\* MpUninstallDriver.
MpUninstallDriver(mem, ident) ==
    IF NoIdentifier(ident) THEN [status |-> MP_BAD_IDENTIFIER, mem |-> mem]
    ELSE IF Matches(mem.firstDriver, ident) # {}
    THEN [status |-> MP_OK,
          mem |-> [mem EXCEPT !.firstDriver =
                                  Unlinked(@, FirstMatch(@, ident))]]
    ELSE [status |-> MP_NOT_FOUND, mem |-> mem]

\* The loop of MpUninstallAllDrivers.
RECURSIVE UninstallFirstDrivers(_)
UninstallFirstDrivers(mem) ==
    IF mem.firstDriver = <<>>
    THEN mem
    ELSE UninstallFirstDrivers(
             MpUninstallDriver(mem, <<mem.firstDriver[1].ident>>).mem)

\* MpUninstallAllDrivers.
MpUninstallAllDrivers(mem) ==
    [status |-> MP_OK, mem |-> UninstallFirstDrivers(mem)]

\* MpListDrivers, the preset of the outputs.
ListPreset(mem, argc, argv) ==
    [mem EXCEPT !.argc = IF argc # NULL THEN 0 ELSE @,
                !.argv = IF argv # NULL THEN NULL ELSE @]

\* The array lst once filled: a pointer to the copy of each identifier in
\* the order of the list, and NULL at index cnt.
DriverList(list, cnt) ==
    <<[idx \in 1..(cnt + 1) |->
          IF idx <= cnt /\ idx <= Len(list) THEN <<list[idx].ident>>
          ELSE NULL]>>

\* MpListDrivers, argc and argv being NULL or the addresses of the cells
\* of the same names.
MpListDrivers(mem, argc, argv, mallocOK) ==
    IF argc = NULL \/ argv = NULL
    THEN [status |-> MP_BAD_ADDRESS, mem |-> ListPreset(mem, argc, argv)]
    ELSE IF ~mallocOK
    THEN [status |-> MP_NO_MEMORY, mem |-> ListPreset(mem, argc, argv)]
    ELSE [status |-> MP_OK,
          mem |-> [mem EXCEPT
                     !.argc = Len(mem.firstDriver),
                     !.argv = DriverList(mem.firstDriver,
                                         Len(mem.firstDriver))]]

(***************************************************************************)
(* Devices.  A device is a block of the heap; its members are those the    *)
(* functions of muPlot.c and the driver of muXFigDriver.c read or write,   *)
(* under the names these files give them, and freed tells whether the      *)
(* block has been released.  The drawing methods drawPoint, drawRectangle, *)
(* drawPolyline and drawPolygon are set together: draw stands for them.    *)
(***************************************************************************)
\* A block as malloc and memset(buf, 0, size) leave it.
MpAllocateDevice ==
    [freed |-> FALSE, file |-> NULL,
     pageWidth |-> Num(0), pageHeight |-> Num(0),
     horizontalResolution |-> Num(0), verticalResolution |-> Num(0),
     horizontalSamples |-> Num(0), verticalSamples |-> Num(0),
     colormapSize |-> 0, colormapSize0 |-> 0, colormapSize1 |-> 0,
     colormapSize2 |-> 0, colormap |-> NULL, close |-> NULL, draw |-> NULL]

\* fabs and round of the C library (round: halfway cases away from zero).
Fabs(a) == IF IsNaN(a) THEN a ELSE <<Abs(a[1]), a[2]>>

Round(a) ==
    IF ~IsFin(a) THEN a
    ELSE Num(Sign(a[1]) * ((2 * Abs(a[1]) + a[2]) \div (2 * a[2])))

\* MpSystemError: -(1 + errno).
MpSystemError(errno) == -(1 + errno)

\* openDummyDevice, the open method of the tests.
openDummyDevice(mem, devptr, arg, env) ==
    [status |-> MP_NOT_IMPLEMENTED, mem |-> mem]

\* MpOpenXFigDevice, the settings stored once the file is open.
XFigSettings(dev, dotsPerMillimeter) ==
    [dev EXCEPT
       !.pageWidth = Num(297),
       !.horizontalResolution = dotsPerMillimeter,
       !.verticalResolution = dotsPerMillimeter,
       !.horizontalSamples = Round(Mul(Num(297), dotsPerMillimeter)),
       !.verticalSamples = Round(Mul(dev.pageHeight, dotsPerMillimeter)),
       !.colormapSize1 = 34,
       !.colormapSize2 = 512]

\* MpOpenXFigDevice: env tells whether malloc and fopen succeed and the
\* errno fopen leaves.  The new block is the next one of the heap.
MpOpenXFigDevice(mem, devptr, arg, env) ==
    IF arg = NULL \/ arg[1] = ""
    THEN [status |-> MP_BAD_FILENAME, mem |-> mem]
    ELSE IF ~env.mallocOK
    THEN [status |-> MP_NO_MEMORY, mem |-> [mem EXCEPT ![devptr[1]] = NULL]]
    ELSE IF ~env.fopenOK
    THEN [status |-> MpSystemError(env.errno),
          mem |-> [mem EXCEPT
                     ![devptr[1]] = <<Len(mem.heap) + 1>>,
                     !.heap = Append(@, [MpAllocateDevice EXCEPT
                                           !.draw = <<"drawXFigPoint">>,
                                           !.freed = TRUE])]]
    ELSE [status |-> MP_OK,
          mem |-> [mem EXCEPT
                     ![devptr[1]] = <<Len(mem.heap) + 1>>,
                     !.heap = Append(@,
                         XFigSettings([MpAllocateDevice EXCEPT
                                         !.draw = <<"drawXFigPoint">>,
                                         !.file = arg],
                                      Div(Num(1200), Rat(254, 10))))]]

\* The call drv->open(devptr, ident, arg).
CallOpen(open, mem, devptr, arg, env) ==
    IF open[1] = "MpOpenXFigDevice"
    THEN MpOpenXFigDevice(mem, devptr, arg, env)
    ELSE openDummyDevice(mem, devptr, arg, env)

\* MpCheckPageSettings, the first test on the values set by the driver.
BadPageSettings(dev) ==
    \/ ~MP_IS_FINITE(dev.horizontalResolution)
    \/ ~MP_IS_FINITE(dev.verticalResolution)
    \/ ~MP_IS_FINITE(dev.pageWidth) \/ Lt(dev.pageWidth, Num(0))
    \/ ~MP_IS_FINITE(dev.pageHeight) \/ Lt(dev.pageHeight, Num(0))

\* MpCheckPageSettings, the attempts to fix the page width and height.
FixPageWidth(dev) ==
    IF Eq(dev.pageWidth, Num(0)) /\ Gt(dev.horizontalSamples, Num(0))
    THEN [dev EXCEPT !.pageWidth = Div(dev.horizontalSamples,
                                       Fabs(dev.horizontalResolution))]
    ELSE dev

FixPageHeight(dev) ==
    IF Eq(dev.pageHeight, Num(0)) /\ Gt(dev.verticalSamples, Num(0))
    THEN [dev EXCEPT !.pageHeight = Div(dev.verticalSamples,
                                        Fabs(dev.verticalResolution))]
    ELSE dev

\* MpCheckPageSettings, the attempt to fix the number of samples.
FixSamples(dev) ==
    [dev EXCEPT
       !.horizontalSamples =
           IF Eq(@, Num(0)) /\ Gt(dev.pageWidth, Num(0))
           THEN Round(Mul(dev.pageWidth, Fabs(dev.horizontalResolution)))
           ELSE @,
       !.verticalSamples =
           IF Eq(@, Num(0)) /\ Gt(dev.pageHeight, Num(0))
           THEN Round(Mul(dev.pageHeight, Fabs(dev.verticalResolution)))
           ELSE @]

\* MpCheckPageSettings, the final check.
BadPageSize(dev) ==
    \/ Le(dev.pageWidth, Num(0)) \/ Lt(dev.horizontalSamples, Num(1))
    \/ ~Lt(Fabs(Sub(dev.horizontalSamples,
                    Mul(dev.pageWidth, Fabs(dev.horizontalResolution)))),
           Num(1))
    \/ Le(dev.pageHeight, Num(0)) \/ Lt(dev.verticalSamples, Num(1))
    \/ ~Lt(Fabs(Sub(dev.verticalSamples,
                    Mul(dev.pageHeight, Fabs(dev.verticalResolution)))),
           Num(1))

\* MpCheckPageSettings once the page width is fixed and finite.
CheckPageHeight(dev) ==
    IF ~MP_IS_FINITE(FixPageHeight(dev).pageHeight)
    THEN [status |-> MP_BAD_SETTINGS, dev |-> FixPageHeight(dev)]
    ELSE [status |-> IF BadPageSize(FixSamples(FixPageHeight(dev)))
                     THEN MP_BAD_SETTINGS ELSE MP_OK,
          dev |-> FixSamples(FixPageHeight(dev))]

\* MpCheckPageSettings on a device (dev # NULL).
CheckPage(dev) ==
    IF BadPageSettings(dev) THEN [status |-> MP_BAD_SETTINGS, dev |-> dev]
    ELSE IF ~MP_IS_FINITE(FixPageWidth(dev).pageWidth)
    THEN [status |-> MP_BAD_SETTINGS, dev |-> FixPageWidth(dev)]
    ELSE CheckPageHeight(FixPageWidth(dev))

\* MpCheckPageSettings(dev), dev being the k-th block of the heap.
MpCheckPageSettings(mem, k) ==
    [status |-> CheckPage(mem.heap[k]).status,
     mem |-> [mem EXCEPT !.heap[k] = CheckPage(@).dev]]

\* MpCheckMethods: the substitutes, then the test that every method is
\* defined.
MpCheckMethods(mem, k) ==
    [status |-> IF mem.heap[k].draw = NULL THEN MP_BAD_METHOD ELSE MP_OK,
     mem |-> [mem EXCEPT !.heap[k].close =
                             IF @ = NULL THEN <<"doNothing">> ELSE @]]

\* MpCheckColors, the total number of colors once fixed.
FixColormapSize(dev) ==
    [dev EXCEPT !.colormapSize =
                    IF @ = 0 THEN dev.colormapSize0 + dev.colormapSize1
                    ELSE @]

\* MpCheckColors, calloc succeeding or not.
MpCheckColors(mem, k, env) ==
    IF \/ FixColormapSize(mem.heap[k]).colormapSize0 < 2
       \/ FixColormapSize(mem.heap[k]).colormapSize1 < 0
       \/ FixColormapSize(mem.heap[k]).colormapSize
            # mem.heap[k].colormapSize0 + mem.heap[k].colormapSize1
    THEN [status |-> MP_BAD_SETTINGS,
          mem |-> [mem EXCEPT !.heap[k] = FixColormapSize(@)]]
    ELSE IF mem.heap[k].colormap = NULL /\ ~env.callocOK
    THEN [status |-> MP_NO_MEMORY,
          mem |-> [mem EXCEPT !.heap[k] = FixColormapSize(@)]]
    ELSE [status |-> MP_OK,
          mem |-> [mem EXCEPT !.heap[k] =
                      [FixColormapSize(@) EXCEPT !.colormap = <<"colormap">>]]]

\* finalizeDevice, after dev->close(dev) has returned: the colormap and
\* the block are freed.
finalizeDevice(dev) ==
    [dev EXCEPT !.freed = TRUE,
                !.colormap = NULL,
                !.colormapSize = IF dev.colormap # NULL THEN 0 ELSE @]

\* MpCloseDevice(devptr): finalizeDevice calls dev->close(dev) whatever
\* dev->close holds, and a call through a NULL pointer does not return
\* (crashed); otherwise the device is finalized and *devptr is NULL.
MpCloseDevice(mem, devptr) ==
    IF devptr = NULL
    THEN [status |-> MP_BAD_ADDRESS, mem |-> mem, crashed |-> FALSE]
    ELSE IF mem[devptr[1]] = NULL
    THEN [status |-> MP_OK, mem |-> mem, crashed |-> FALSE]
    ELSE IF mem.heap[mem[devptr[1]][1]].close = NULL
    THEN [status |-> MP_OK, mem |-> mem, crashed |-> TRUE]
    ELSE [status |-> MP_OK, crashed |-> FALSE,
          mem |-> [mem EXCEPT
                     !.heap[mem[devptr[1]][1]] = finalizeDevice(@),
                     ![devptr[1]] = NULL]]

\* MpOpenDevice, the checks made when the open method returned MP_OK:
\* the first one that fails gives the status.
CheckAfterMethods(r, k, env) ==
    IF r.status # MP_OK THEN r ELSE MpCheckColors(r.mem, k, env)

CheckAfterPage(r, k, env) ==
    IF r.status # MP_OK THEN r
    ELSE CheckAfterMethods(MpCheckMethods(r.mem, k), k, env)

CheckOpened(mem, devptr, env) ==
    IF mem[devptr[1]] = NULL
    THEN [status |-> MP_BAD_ADDRESS, mem |-> mem]
    ELSE CheckAfterPage(MpCheckPageSettings(mem, mem[devptr[1]][1]),
                        mem[devptr[1]][1], env)

\* MpOpenDevice, the device being closed when a check failed: the status
\* of the check is returned.
CloseUnlessChecked(r, devptr) ==
    IF r.status = MP_OK
    THEN [status |-> MP_OK, mem |-> r.mem, crashed |-> FALSE]
    ELSE [status |-> r.status,
          mem |-> MpCloseDevice(r.mem, devptr).mem,
          crashed |-> MpCloseDevice(r.mem, devptr).crashed]

\* MpOpenDevice once the open method has returned r.
AfterOpen(r, devptr, env) ==
    IF r.status # MP_OK
    THEN [status |-> r.status, mem |-> r.mem, crashed |-> FALSE]
    ELSE CloseUnlessChecked(CheckOpened(r.mem, devptr, env), devptr)

\* MpOpenDevice once *devptr is NULL: the search of the driver.
FindAndOpen(mem, devptr, ident, arg, env) ==
    IF NoIdentifier(ident)
    THEN [status |-> MP_BAD_IDENTIFIER, mem |-> mem, crashed |-> FALSE]
    ELSE IF Matches(mem.firstDriver, ident) = {}
    THEN [status |-> MP_NOT_FOUND, mem |-> mem, crashed |-> FALSE]
    ELSE AfterOpen(
             CallOpen(mem.firstDriver[FirstMatch(mem.firstDriver, ident)].open,
                      mem, devptr, arg, env),
             devptr, env)

\* MpOpenDevice(devptr, ident, arg), devptr being NULL or the address of
\* the cell devptr.
MpOpenDevice(mem, devptr, ident, arg, env) ==
    IF devptr = NULL
    THEN [status |-> MP_BAD_ADDRESS, mem |-> mem, crashed |-> FALSE]
    ELSE FindAndOpen([mem EXCEPT ![devptr[1]] = NULL],
                     devptr, ident, arg, env)

(***************************************************************************)
(* Specification SpecDrivers: from the empty registry, any sequence of     *)
(* calls of MpInstallDriver, MpUninstallDriver and MpUninstallAllDrivers,  *)
(* followed by one call of MpListDrivers or of MpOpenDevice (which leave   *)
(* the registry as it is).                                                 *)
(***************************************************************************)
\* The identifiers of the drivers, and the identifiers passed to the
\* functions: NULL, the empty string or an identifier.
Identifiers == {"dummy1", "dummy2", "xfig"}

IdentArguments == {NULL, <<"">>} \cup {<<s>> : s \in Identifiers}

\* The open methods passed to MpInstallDriver.
OpenMethods == {NULL, <<"openDummyDevice">>, <<"MpOpenXFigDevice">>}

\* The argument passed to MpOpenDevice.
FileArguments == {NULL, <<"">>, <<"plot.fig">>}

\* What the C library does during a call of MpOpenDevice.
Environments ==
    {[mallocOK |-> a, fopenOK |-> f, callocOK |-> c, errno |-> 2] :
        a \in BOOLEAN, f \in BOOLEAN, c \in BOOLEAN}

InitDrivers ==
    /\ pc = "call"
    /\ res = NoResult
    /\ box = UnsetBox
    /\ xs = <<>>
    /\ ys = <<>>
    /\ obj = [firstDriver |-> <<>>, argc |-> -1, argv |-> <<"unset">>,
              devptr |-> <<"unset">>, heap |-> <<>>]

\* The state after a call of a function of muPlot.c that returned
\* r = [status, mem], ident being the identifier passed, arg the method or
\* the argument and ptr the addresses of the outputs.
ReturnedFrom(name, r, ident, arg, ptr) ==
    /\ pc' = name
    /\ obj' = r.mem
    /\ res' = [status |-> r.status, ident |-> ident, arg |-> arg,
               ptr |-> ptr, pre |-> obj]
    /\ UNCHANGED <<box, xs, ys>>

\* The calls that change the registry have returned, if any was made.
RegistryReady ==
    pc \in {"call", "MpInstallDriver", "MpUninstallDriver",
            "MpUninstallAllDrivers"}

InstallDriverCall ==
    /\ RegistryReady
    /\ \E ident \in IdentArguments : \E open \in OpenMethods :
          \E mallocOK \in BOOLEAN :
             ReturnedFrom("MpInstallDriver",
                          MpInstallDriver(obj, ident, open, mallocOK),
                          ident, open, NULL)

UninstallDriverCall ==
    /\ RegistryReady
    /\ \E ident \in IdentArguments :
          ReturnedFrom("MpUninstallDriver", MpUninstallDriver(obj, ident),
                       ident, NULL, NULL)

UninstallAllDriversCall ==
    /\ RegistryReady
    /\ ReturnedFrom("MpUninstallAllDrivers", MpUninstallAllDrivers(obj),
                    NULL, NULL, NULL)

\* A call of MpListDrivers, argc and argv being NULL or the addresses of
\* the cells argc and argv.
ListDriversCall ==
    /\ RegistryReady
    /\ \E argc \in {NULL, <<"argc">>} : \E argv \in {NULL, <<"argv">>} :
          \E mallocOK \in BOOLEAN :
             ReturnedFrom("MpListDrivers",
                          MpListDrivers(obj, argc, argv, mallocOK),
                          NULL, NULL, <<argc, argv>>)

\* A call of MpOpenDevice(&devptr, ident, arg) or MpOpenDevice(NULL, ident,
\* arg); the program ends when the call does not return.
OpenDeviceCall ==
    /\ RegistryReady
    /\ \E devptr \in {NULL, <<"devptr">>} : \E ident \in IdentArguments :
          \E arg \in FileArguments : \E env \in Environments :
             IF MpOpenDevice(obj, devptr, ident, arg, env).crashed
             THEN /\ pc' = "crashed"
                  /\ res' = [ident |-> ident, arg |-> arg,
                             ptr |-> devptr, pre |-> obj]
                  /\ UNCHANGED <<box, xs, ys, obj>>
             ELSE ReturnedFrom("MpOpenDevice",
                               MpOpenDevice(obj, devptr, ident, arg, env),
                               ident, arg, devptr)

NextDrivers ==
    \/ InstallDriverCall
    \/ UninstallDriverCall
    \/ UninstallAllDriversCall
    \/ ListDriversCall
    \/ OpenDeviceCall

SpecDrivers == InitDrivers /\ [][NextDrivers]_vars

(***************************************************************************)
(* Properties of the registry of drivers.                                  *)
(***************************************************************************)
\* The identifiers of the drivers installed in the memory mem.
Installed(mem) == {mem.firstDriver[i].ident : i \in 1..Len(mem.firstDriver)}

\* The count MpListDrivers gives for the memory mem when it succeeds.
ListedCount(mem) == MpListDrivers(mem, <<"argc">>, <<"argv">>, TRUE).mem.argc

\* The outputs of a successful MpListDrivers: the count is the number of
\* drivers, the entries 0..count-1 name them and the entry count is NULL.
ListsInstalled ==
    /\ res.status = MP_OK
    /\ obj.argc = Cardinality(Installed(res.pre))
    /\ obj.argv # NULL
    /\ Len(obj.argv[1]) = obj.argc + 1
    /\ \A i \in 1..obj.argc : obj.argv[1][i] # NULL
    /\ {obj.argv[1][i][1] : i \in 1..obj.argc} = Installed(res.pre)
    /\ obj.argv[1][obj.argc + 1] = NULL

\* C25: after any sequence of MpInstallDriver, MpUninstallDriver and
\* MpUninstallAllDrivers calls, MpListDrivers with non-NULL arguments and a
\* successful allocation returns MP_OK with the number of installed drivers
\* as count, their identifiers as entries 0..count-1 and NULL at index
\* count; and installing two new distinct identifiers returns MP_OK each
\* time and raises the listed count by two.
C25_ListDriversListsInstalled ==
    /\ (/\ pc = "MpListDrivers"
        /\ res.ptr = <<<<"argc">>, <<"argv">>>>
        /\ res.status # MP_NO_MEMORY)
       => ListsInstalled
    /\ (/\ pc = "MpInstallDriver"
        /\ ~NoIdentifier(res.ident)
        /\ res.arg # NULL
        /\ res.ident[1] \notin Installed(res.pre)
        /\ res.status # MP_NO_MEMORY)
       => /\ res.status = MP_OK
          /\ ListedCount(obj) = ListedCount(res.pre) + 1
          /\ \A s \in Identifiers \ Installed(obj) :
                /\ MpInstallDriver(obj, <<s>>, res.arg, TRUE).status = MP_OK
                /\ ListedCount(MpInstallDriver(obj, <<s>>, res.arg, TRUE).mem)
                     = ListedCount(res.pre) + 2

\* C25 witness: dummy1 and then dummy2 have been installed and
\* MpListDrivers gives the count 2 and the list dummy2, dummy1, NULL.
C25_Witness ==
    /\ pc = "MpListDrivers"
    /\ res.status = MP_OK
    /\ obj.firstDriver = <<MpDriver("dummy2", <<"openDummyDevice">>),
                           MpDriver("dummy1", <<"openDummyDevice">>)>>
    /\ obj.argc = 2
    /\ obj.argv = <<<<<<"dummy2">>, <<"dummy1">>, NULL>>>>

\* C25, installing: dummy2 has been installed in a registry that held
\* dummy1 only.
C25_InstallWitness ==
    /\ pc = "MpInstallDriver"
    /\ res.status = MP_OK
    /\ Installed(res.pre) = {"dummy1"}
    /\ Installed(obj) = {"dummy1", "dummy2"}

\* No two nodes of the list have the same identifier.
NoDuplicate(list) ==
    \A i, j \in 1..Len(list) : list[i].ident = list[j].ident => i = j

\* The list after the call is the list before it with the method of the
\* driver ident replaced by open.
MethodReplaced(before, after, ident, open) ==
    /\ Len(after) = Len(before)
    /\ \A i \in 1..Len(before) :
          /\ after[i].ident = before[i].ident
          /\ after[i].open = IF before[i].ident = ident THEN open
                             ELSE before[i].open

\* C28: the registry never holds two entries with the same identifier.
\* MpInstallDriver with an identifier already installed returns MP_OK,
\* replaces the open method of that entry and leaves the number of entries
\* unchanged; with a NULL or empty identifier it returns MP_BAD_IDENTIFIER
\* and with a NULL open method MP_BAD_METHOD, the registry being unchanged;
\* MpUninstallDriver of an identifier that is not installed returns
\* MP_NOT_FOUND and leaves the registry unchanged.
C28_RegistryHasNoDuplicate ==
    /\ NoDuplicate(obj.firstDriver)
    /\ pc = "MpInstallDriver" =>
          IF NoIdentifier(res.ident)
          THEN res.status = MP_BAD_IDENTIFIER /\ obj = res.pre
          ELSE IF res.arg = NULL
          THEN res.status = MP_BAD_METHOD /\ obj = res.pre
          ELSE res.ident[1] \in Installed(res.pre)
               => /\ res.status = MP_OK
                  /\ MethodReplaced(res.pre.firstDriver, obj.firstDriver,
                                    res.ident[1], res.arg)
    /\ (/\ pc = "MpUninstallDriver"
        /\ ~NoIdentifier(res.ident)
        /\ res.ident[1] \notin Installed(res.pre))
       => res.status = MP_NOT_FOUND /\ obj = res.pre

\* C28 witness: xfig, installed with openDummyDevice after dummy1, has been
\* installed again with MpOpenXFigDevice: two entries, xfig first, its
\* method replaced.
C28_Witness ==
    /\ pc = "MpInstallDriver"
    /\ res.status = MP_OK
    /\ res.pre.firstDriver = <<MpDriver("xfig", <<"openDummyDevice">>),
                               MpDriver("dummy1", <<"openDummyDevice">>)>>
    /\ obj.firstDriver = <<MpDriver("xfig", <<"MpOpenXFigDevice">>),
                           MpDriver("dummy1", <<"openDummyDevice">>)>>

\* C28, refusals: MpUninstallDriver("dummy2") has returned MP_NOT_FOUND on a
\* registry that holds dummy1.
C28_NotFoundWitness ==
    /\ pc = "MpUninstallDriver"
    /\ res.ident = <<"dummy2">>
    /\ Installed(res.pre) = {"dummy1"}
    /\ res.status = MP_NOT_FOUND

C28_BadMethodWitness ==
    /\ pc = "MpInstallDriver"
    /\ res.ident = <<"dummy2">>
    /\ res.arg = NULL
    /\ Installed(res.pre) = {"dummy1"}
    /\ res.status = MP_BAD_METHOD

\* C26: whenever MpOpenDevice is called with a non-NULL devptr and returns
\* a status other than MP_OK (bad identifier, driver not found, open method
\* failing, post-open check failing), *devptr is NULL on return: it never
\* refers to a freed or partially initialised device.
C26_OpenDeviceClearsDevptr ==
    (/\ pc = "MpOpenDevice"
     /\ res.ptr # NULL
     /\ res.status # MP_OK)
    => obj.devptr = NULL

(***************************************************************************)
(* Properties of the clip state.                                           *)
(***************************************************************************)
\* The stored bounds of the states w and v are the same.
SameBounds(w, v) ==
    /\ w.xmin = v.xmin /\ w.xmax = v.xmax
    /\ w.ymin = v.ymin /\ w.ymax = v.ymax

\* The state after the step holds the point p as second point, with its
\* outcode for the stored bounds.
SecondPointIs(w, x, y) ==
    /\ w.x2 = x /\ w.y2 = y
    /\ w.c2 = MP_CLIP_TBRL(x, y, w.xmin, w.xmax, w.ymin, w.ymax)

\* A step MpClipNext(w, p): the new first point is the raw second point
\* held before the call and p is the new second point.
RotatesPoints ==
    /\ res'.w.x1 = res.w.x2 /\ res'.w.y1 = res.w.y2 /\ res'.w.c1 = res.w.c2
    /\ SecondPointIs(res'.w, xs[res'.n], ys[res'.n])

\* A step MpRestartClip(w, p0): only the second point and its outcode are
\* replaced.
ReplacesSecondPoint ==
    /\ SecondPointIs(res'.w, xs[res'.n], ys[res'.n])
    /\ [res'.w EXCEPT !.x2 = res.w.x2, !.y2 = res.w.y2, !.c2 = res.w.c2]
         = res.w

\* A step MpClipNext(w, q) that follows MpRestartClip(w, p0): the segment
\* p0 -> q is classified, and clipped, as by a state initialized at p0 with
\* the same box.
ClassifiesFromRestart ==
    LET fresh == MpClipNext(MpInitializeClip(xs[res.n], ys[res.n], box),
                            xs[res'.n], ys[res'.n])
    IN  /\ res'.code = fresh.code
        /\ res'.code = 2 =>
              /\ res'.w.x1c = fresh.w.x1c /\ res'.w.y1c = fresh.w.y1c
              /\ res'.w.x2c = fresh.w.x2c /\ res'.w.y2c = fresh.w.y2c

\* C27: after MpInitializeClip and any sequence of MpClipNext and
\* MpRestartClip calls, (a) each MpClipNext(p) makes the raw second point
\* held before the call the first point and p the second point with its
\* outcode; (b) the stored bounds are never changed by MpClipNext or
\* MpRestartClip and stay ordered as MpInitializeClip derived them; (c)
\* MpRestartClip(p0) replaces only the second point and its outcode, so that
\* the next MpClipNext(q) classifies p0 -> q against the same box.
C27_ClipStateRotationAndFrame ==
    /\ [](pc = "clip" =>
            /\ SameBounds(res.w, OrderedBounds(box))
            /\ Le(res.w.xmin, res.w.xmax) /\ Le(res.w.ymin, res.w.ymax))
    /\ [][(pc = "clip" /\ pc' = "clip") =>
            /\ SameBounds(res'.w, res.w)
            /\ res'.code # -1 => RotatesPoints
            /\ res'.code = -1 => ReplacesSecondPoint
            /\ (res.code = -1 /\ res.n > 1 /\ res'.code # -1)
               => ClassifiesFromRestart]_vars

\* C27 witness: after MpInitializeClip at the first point and
\* MpRestartClip at the second one, MpClipNext at the third point has
\* accepted the clipped segment from the second point to the third, in a
\* box given with unordered limits.
C27_Witness ==
    /\ pc = "clip"
    /\ ~IsOrdered(box)
    /\ res.n = 3
    /\ res.code = 2
    /\ res.w.x1 = xs[2] /\ res.w.y1 = ys[2]
    /\ res.w.x2 = xs[3] /\ res.w.y2 = ys[3]
    /\ res.w.c1 # 0
    /\ xs[1] # xs[2]

(***************************************************************************)
(* Order of the callbacks of MpDrawClippedPolyline.                        *)
(***************************************************************************)
\* The invocations of draw in the trace, in order.
DrawCalls(trace) == SelectSeq(trace, LAMBDA e : e.f = "draw")

\* C29: the sequence of callbacks issued by one call of
\* MpDrawClippedPolyline never starts with draw, never contains two
\* consecutive moves, and every move that returned MP_OK is immediately
\* followed by a draw; when all callbacks returned MP_OK, the number of draws
\* is the count MpClipPolyline returns for the same inputs and the draw
\* points are the second end-points of its segments, in order.
C29_CallbackOrdering ==
    pc = "MpDrawClippedPolyline"
    => LET t == res.trace
           c == MpClipPolyline(box, CArray(xs), CArray(ys), Len(xs))
           d == DrawCalls(t)
       IN  /\ t # <<>> => t[1].f = "move"
           /\ \A k \in 2..Len(t) : ~(t[k - 1].f = "move" /\ t[k].f = "move")
           /\ \A k \in 1..Len(t) :
                 (t[k].f = "move" /\ t[k].st = MP_OK)
                 => (k < Len(t) /\ t[k + 1].f = "draw")
           /\ AllReturnedOK(t)
              => /\ Len(d) = c.count
                 /\ \A j \in 1..Len(d) :
                       d[j].x = c.xc[2 * j] /\ d[j].y = c.yc[2 * j]

\* C29 witness: a polyline of MaxPoints points of which MpClipPolyline keeps
\* two segments that do not share an end-point has been drawn, every
\* callback returning MP_OK, with a move and a draw for each.
C29_Witness ==
    /\ pc = "MpDrawClippedPolyline"
    /\ Len(xs) = MaxPoints
    /\ AllReturnedOK(res.trace)
    /\ Len(res.trace) = 4
    /\ res.trace[3].f = "move"
    /\ res.trace[4].x = MpClipPolyline(box, CArray(xs), CArray(ys),
                                       Len(xs)).xc[4]

\* C29 witness of a failing move: the move of the second segment to draw
\* returned MP_NO_MEMORY and no draw followed.
C29_FailedMoveWitness ==
    /\ pc = "MpDrawClippedPolyline"
    /\ Len(res.trace) = 3
    /\ res.trace[3].f = "move"
    /\ res.trace[3].st = MP_NO_MEMORY

(***************************************************************************)
(* Specification SpecIntersect: one call of any of the clipping entry      *)
(* points on the arrays of a segment, of a batch or of a polyline, or a    *)
(* sequence of incremental calls on at most MaxPoints points.              *)
(***************************************************************************)
\* The boxes are those given with ordered limits.
InitIntersect ==
    /\ InitSegment \/ InitBatch \/ InitPolyline
    /\ IsOrdered(box)

NextIntersect ==
    \/ (Len(xs) = 2 /\ ClipSegmentCall)
    \/ (Len(xs) = 2 /\ DrawClippedSegmentCall)
    \/ (Len(xs) % 2 = 0 /\ ClipSegmentsCall)
    \/ (Len(xs) % 2 = 0 /\ ClipSegmentsInPlaceCall)
    \/ (Len(xs) % 2 = 0 /\ DrawClippedSegmentsCall)
    \/ ClipPolylineCall
    \/ DrawClippedPolylineCall
    \/ (Len(xs) <= MaxPoints /\ InitializeClipCall)
    \/ ClipNextCall
    \/ RestartClipCall

SpecIntersect == InitIntersect /\ [][NextIntersect]_vars

(***************************************************************************)
(* Divisors of the ratios DX/DY and DY/DX.                                 *)
(***************************************************************************)
\* The segment (x1,y1) -> (x2,y2) reaches the intersection procedure with
\* the bounds o: its outcodes are not both zero and have no common bit.
ReachesIntersect(o, x1, y1, x2, y2) ==
    /\ Outcode(x1, y1, o) # 0 \/ Outcode(x2, y2, o) # 0
    /\ BitAnd(Outcode(x1, y1, o), Outcode(x2, y2, o)) = 0

\* The treatment of the two end-points of a segment that reaches the
\* intersection procedure with the bounds o evaluates a ratio with a zero
\* divisor; the second end-point is only treated when the first one was not
\* rejected.
ZeroDivisor(o, x1, y1, x2, y2) ==
    LET e1 == MoveEndPoint(Outcode(x1, y1, o), Sub(x2, x1), Sub(y2, y1),
                           x1, y1, x2, y2, o)
        e2 == MoveEndPoint(Outcode(x2, y2, o), Sub(x2, x1), Sub(y2, y1),
                           x2, y2, x1, y1, o)
    IN  /\ ReachesIntersect(o, x1, y1, x2, y2)
        /\ e1.divz \/ (e1.ok /\ e2.divz)

\* The pairs of C indices of the end-points of the segments a call has
\* examined: one segment, the disjoint pairs the loops of the batch variants
\* visit, or the consecutive pairs of a polyline.
ExaminedPairs ==
    IF pc \in {"MpClipSegment", "MpDrawClippedSegment"} THEN {<<1, 2>>}
    ELSE IF pc \in {"MpClipSegments", "MpClipSegmentsInPlace",
                    "MpDrawClippedSegments"}
    THEN {<<2 * i + 1, 2 * i + 2>> : i \in 1..(Len(xs) \div 2 - 1)}
    ELSE IF pc \in {"MpClipPolyline", "MpDrawClippedPolyline"}
    THEN {<<i, i + 1>> : i \in 1..(Len(xs) - 1)}
    ELSE {}

\* C30: for every ordered box with finite bounds and every segment that
\* reaches the intersection procedure, DX/DY is only evaluated with DY
\* non-zero and DY/DX with DX non-zero, in MpClipSegment, MpClipNext and the
\* batch and draw variants.
C30_NoDivisionByZero ==
    IsOrdered(box)
    => /\ pc \in {"MpClipSegment", "clip"} => ~res.divz
       /\ \A s \in ExaminedPairs :
             ~ZeroDivisor(OrderedBounds(box), xs[s[1]], ys[s[1]],
                          xs[s[2]], ys[s[2]])

\* C30 witness: MpClipSegment has clipped, in an ordered box, a vertical
\* segment (DX is zero) that crosses the upper limit: DX/DY was evaluated
\* and the X-limits left the point where it was.
C30_Witness ==
    /\ pc = "MpClipSegment"
    /\ IsOrdered(box)
    /\ xs[1] = xs[2]
    /\ Gt(ys[1], OrderedBounds(box).ymax)
    /\ res.c1 = 8
    /\ res.code = 2
    /\ res.x1c = xs[1]

\* C30 witness for MpClipNext: a horizontal segment (DY is zero) that
\* enters an ordered box by its left limit has been accepted.
C30_ClipNextWitness ==
    /\ pc = "clip"
    /\ IsOrdered(box)
    /\ res.n = 2
    /\ ys[1] = ys[2]
    /\ res.w.c1 = 1
    /\ res.code = 2

\* C30 witness for the batch variants: the second segment of a batch, a
\* vertical one that crosses the upper limit of an ordered box, was kept.
C30_BatchWitness ==
    /\ pc = "MpClipSegments"
    /\ IsOrdered(box)
    /\ Len(xs) >= 4
    /\ xs[3] = xs[4]
    /\ ReachesIntersect(OrderedBounds(box), xs[3], ys[3], xs[4], ys[4])
    /\ res.count >= 1

====
